---- MODULE Spec2Model ----
(***************************************************************************)
(* A model of the workflow execution engine (app/workflow_engine.py), of   *)
(* the tool dispatcher it calls (app/tool_executor.py), of the session     *)
(* manager (app/session_manager.py), of the Telegram authentication        *)
(* manager (app/telegram_auth_manager.py) and of the smart master agent    *)
(* conversation (app/smart_master_agent.py).                               *)
(*                                                                         *)
(* Strings are sequences of tokens.  A token is one character that some    *)
(* operation of the engine looks at on its own (a digit, a sign, '$', '{', *)
(* '}', a blank, '_', '-') or a word: a run of letters.  int(), strip('$'),*)
(* startswith('$'), str.format and the regular expressions therefore work  *)
(* on the tokens exactly as the code works on the characters.              *)
(***************************************************************************)
EXTENDS Integers, Sequences, FiniteSets, TLC

VARIABLES
    executor,            \* executor id -> the fields and the run frame of one WorkflowExecutor
    TOOL_REGISTRY,       \* tool type -> name of the registered executor function
    ALLOWED_TOOL_TYPES,  \* the allow-list of tool types
    user_data,           \* the documents inserted into the agent's user-data collection
    dispatch,            \* the call of execute_tool made directly (not by an executor)
    called,              \* the latest direct call of another function of tool_executor.py
    sessions_collection, \* the documents of the sessions collection, in insertion order
    telegram_auth,       \* the documents of the telegram_auth collection, in insertion order
    smart_conversations, \* conversation_id -> SmartMasterAgentState
    tasks,               \* task id -> the frame of a coroutine of a manager or of the master agent
    utcnow               \* datetime.utcnow(), in minutes

vars == <<executor, TOOL_REGISTRY, ALLOWED_TOOL_TYPES, user_data, dispatch, called,
          sessions_collection, telegram_auth, smart_conversations, tasks, utcnow>>

\* The state of the session manager, the Telegram authentication manager
\* and the master agent.
managers == <<sessions_collection, telegram_auth, smart_conversations, tasks, utcnow>>

(***************************************************************************)
(* Bounds of the model.                                                    *)
(***************************************************************************)
MaxNodes == 3        \* nodes of a workflow
MaxRuns == 2         \* run() calls on one executor, where an executor is used again

(***************************************************************************)
(* Python values.                                                          *)
(***************************************************************************)
\* None, as a value of an Optional[str] field: a token no string holds.
None == <<"None">>

\* bool(x) of an Optional[str]: None and '' are false.
Truthy(s) == s # None /\ s # <<>>

\* A str held in the context or passed to a collaborator.
Str(s) == [str |-> s]

Digits == {"0", "1", "2", "3", "4", "5", "6", "7", "8", "9"}

DigitVal(c) ==
    CASE c = "0" -> 0 [] c = "1" -> 1 [] c = "2" -> 2 [] c = "3" -> 3
      [] c = "4" -> 4 [] c = "5" -> 5 [] c = "6" -> 6 [] c = "7" -> 7
      [] c = "8" -> 8 [] c = "9" -> 9

RECURSIVE LStrip(_, _)
\* s.lstrip(c)
LStrip(s, c) ==
    IF s # <<>> /\ Head(s) = c THEN LStrip(Tail(s), c) ELSE s

RECURSIVE RStrip(_, _)
\* s.rstrip(c)
RStrip(s, c) ==
    IF s # <<>> /\ s[Len(s)] = c THEN RStrip(SubSeq(s, 1, Len(s) - 1), c) ELSE s

\* s.strip(c)
StripChar(s, c) == RStrip(LStrip(s, c), c)

\* s.startswith(c)
StartsWith(s, c) == s # <<>> /\ s # None /\ Head(s) = c

(***************************************************************************)
(* int(s) of a str: blanks around it are dropped, one sign may lead, then  *)
(* digits follow, with single underscores allowed between two digits.      *)
(***************************************************************************)
IntUnsigned(s) ==
    LET t == StripChar(s, " ")
    IN  IF t # <<>> /\ Head(t) \in {"+", "-"} THEN Tail(t) ELSE t

IntParses(s) ==
    LET b == IntUnsigned(s)
    IN  /\ s # None
        /\ b # <<>>
        /\ \A i \in 1..Len(b) :
               \/ b[i] \in Digits
               \/ /\ b[i] = "_"
                  /\ 1 < i /\ i < Len(b)
                  /\ b[i - 1] \in Digits /\ b[i + 1] \in Digits

RECURSIVE DigitsValue(_, _)
DigitsValue(b, acc) ==
    IF b = <<>> THEN acc
    ELSE IF Head(b) = "_" THEN DigitsValue(Tail(b), acc)
    ELSE DigitsValue(Tail(b), 10 * acc + DigitVal(Head(b)))

\* The value of int(s), for an s that parses.
IntValue(s) ==
    LET t == StripChar(s, " ")
        v == DigitsValue(IntUnsigned(s), 0)
    IN  IF Head(t) = "-" THEN 0 - v ELSE v

(***************************************************************************)
(* str.format of a template against the context: '{{' and '}}' are literal *)
(* braces, '{name}' is str(context[name]) and raises KeyError for a name   *)
(* the context lacks, '{}' and '{0}' are positional (IndexError: no        *)
(* positional argument is passed), a brace left alone raises ValueError.   *)
(***************************************************************************)
\* str(v) of a context value, as tokens.
ToStr(v) ==
    IF "str" \in DOMAIN v THEN v.str ELSE <<"<object>">>

\* The least j > i with t[j] = "}", or 0.
ClosingBrace(t, i) ==
    IF \E j \in (i + 1)..Len(t) : t[j] = "}"
    THEN CHOOSE j \in (i + 1)..Len(t) :
             t[j] = "}" /\ \A k \in (i + 1)..(j - 1) : t[k] # "}"
    ELSE 0

RECURSIVE FormatFrom(_, _, _, _)
FormatFrom(t, i, ctx, acc) ==
    IF i > Len(t) THEN [ok |-> TRUE, value |-> acc, error |-> ""]
    ELSE IF t[i] = "{" THEN
        IF i < Len(t) /\ t[i + 1] = "{"
        THEN FormatFrom(t, i + 2, ctx, Append(acc, "{"))
        ELSE LET j == ClosingBrace(t, i)
                 name == SubSeq(t, i + 1, j - 1)
             IN  IF j = 0
                 THEN [ok |-> FALSE, value |-> <<>>, error |-> "ValueError"]
                 ELSE IF \A k \in 1..Len(name) : name[k] \in Digits
                 THEN [ok |-> FALSE, value |-> <<>>, error |-> "IndexError"]
                 ELSE IF name \notin DOMAIN ctx
                 THEN [ok |-> FALSE, value |-> <<>>, error |-> "KeyError"]
                 ELSE FormatFrom(t, j + 1, ctx, acc \o ToStr(ctx[name]))
    ELSE IF t[i] = "}" THEN
        IF i < Len(t) /\ t[i + 1] = "}"
        THEN FormatFrom(t, i + 2, ctx, Append(acc, "}"))
        ELSE [ok |-> FALSE, value |-> <<>>, error |-> "ValueError"]
    ELSE FormatFrom(t, i + 1, ctx, Append(acc, t[i]))

\* template.format with the entries of ctx as keyword arguments
Format(t, ctx) == FormatFrom(t, 1, ctx, <<>>)

(***************************************************************************)
(* models.py: WorkflowNode, Tool.                                          *)
(***************************************************************************)
NoParams == <<>>

\* A WorkflowNode with the defaults of the model class.
WorkflowNode(id, type) ==
    [nodeId |-> id, type |-> type,
     prompt |-> None, output_variable |-> None, action |-> None,
     data |-> None, message |-> None, toolId |-> None, params |-> NoParams,
     condition |-> None, on_failure |-> None, continue_on_error |-> FALSE,
     max_retries |-> 3, retry_delay |-> 1]

\* A Tool with the defaults of the model class; auth is None or a ToolAuth.
NoAuth == [none |-> TRUE]

ToolAuth(type, key) == [type |-> type, key |-> key]

Tool(id, type, name) ==
    [toolId |-> id, type |-> type, name |-> name,
     endpoint |-> None, url |-> None, auth |-> NoAuth]

(***************************************************************************)
(* run(), line 278: sorted(nodes, key=lambda n: int(n.nodeId)).  sorted()  *)
(* is stable; it raises ValueError when a key does not parse.              *)
(***************************************************************************)
\* The place of a character in the order of the characters.
CharOrd(c) ==
    CASE c = " " -> 0 [] c = "+" -> 1 [] c = "-" -> 2
      [] c \in Digits -> 3 + DigitVal(c)
      [] c = "_" -> 13
      [] OTHER -> 14

\* A bug the sort could have: the order of the strings, not of the integers.
NodeKeyLE_lexical(a, b) ==
    LET x == a.nodeId
        y == b.nodeId
        n == IF Len(x) < Len(y) THEN Len(x) ELSE Len(y)
        Differ == {i \in 1..n : x[i] # y[i]}
        d == CHOOSE i \in Differ : \A k \in Differ : i <= k
    IN  IF Differ = {} THEN Len(x) <= Len(y)
        ELSE CharOrd(x[d]) <= CharOrd(y[d])

\* The order of the sort keys of two nodes.
NodeKeyLE(a, b) == IntValue(a.nodeId) <= IntValue(b.nodeId)

RECURSIVE InsertNode(_, _)
\* s, sorted, with n put after every node whose key is not above n's.
InsertNode(s, n) ==
    IF s = <<>> THEN <<n>>
    ELSE IF NodeKeyLE(Head(s), n) THEN <<Head(s)>> \o InsertNode(Tail(s), n)
    ELSE <<n>> \o s

RECURSIVE SortNodes(_)
SortNodes(nodes) ==
    IF nodes = <<>> THEN <<>>
    ELSE InsertNode(SortNodes(SubSeq(nodes, 1, Len(nodes) - 1)), nodes[Len(nodes)])

\* Every key of the sort parses.
KeysParse(nodes) == \A i \in 1..Len(nodes) : IntParses(nodes[i].nodeId)

\* A bug the sort could have: the nodes whose nodeId is no integer are left out.
sorted_nodes_of_numeric(nodes) ==
    [raised |-> "",
     nodes |-> SortNodes(SelectSeq(nodes, LAMBDA n : IntParses(n.nodeId)))]

\* run(), line 278: the sorted nodes, or the ValueError of int().
sorted_nodes_of(nodes) ==
    IF KeysParse(nodes) THEN [raised |-> "", nodes |-> SortNodes(nodes)]
    ELSE [raised |-> "ValueError", nodes |-> <<>>]

\* A bug the lookup could have: the agent's first workflow when none matches.
find_workflow_or_first(workflows, workflow_id) ==
    LET found == {i \in 1..Len(workflows) : workflows[i].workflowId = workflow_id}
    IN  IF found = {} THEN 1..Len(workflows) ELSE found

\* run(), line 273: the places of the workflows with this workflowId.
find_workflow(workflows, workflow_id) ==
    {i \in 1..Len(workflows) : workflows[i].workflowId = workflow_id}

(***************************************************************************)
(* tool_executor.py: execute_tool.                                         *)
(***************************************************************************)
Punctuation ==
    {"$", "{", "}", " ", "+", "-", "_", "<", ">", "'", ";", ".", "/", ":", "\n",
     "\"", "\\", "?", "=", "[", "]", ",", "#", "@"}

\* A token that is a run of letters.
IsWord(c) == c \notin Digits /\ c \notin Punctuation

\* What a pattern ending in $ is matched against: in Python $ matches at
\* the end of the string and also just before a newline that ends it.
BeforeDollar(s) ==
    IF s # <<>> /\ s[Len(s)] = "\n" THEN SubSeq(s, 1, Len(s) - 1) ELSE s

\* re.match(r'^[a-zA-Z0-9_-]+$', s)
MatchesToolId(s) ==
    LET body == BeforeDollar(s)
    IN  /\ body # <<>>
        /\ \A i \in 1..Len(body) :
               IsWord(body[i]) \/ body[i] \in Digits \/ body[i] \in {"_", "-"}

\* What the executor of a tool type does when it is awaited under wait_for.
ExecutorOutcomes ==
    {"dict", "bare", "ToolExecutionError", "ToolValidationError",
     "ToolSecurityError", "TimeoutError", "Exception"}

\* A bug execute_tool could have: the tool's toolId and name are checked
\* before its type.
execute_tool_checks_type_last(tool) ==
    IF ~Truthy(tool.toolId) THEN "ToolValidationError"
    ELSE IF ~Truthy(tool.name) THEN "ToolValidationError"
    ELSE IF ~MatchesToolId(tool.toolId) THEN "ToolValidationError"
    ELSE IF tool.type \notin ALLOWED_TOOL_TYPES THEN "ToolSecurityError"
    ELSE IF tool.type \notin DOMAIN TOOL_REGISTRY THEN "ToolExecutionError"
    ELSE ""

\* A bug execute_tool could have: a type without a registered executor is
\* treated like a type outside the allow-list.
execute_tool_checks_one_check(tool) ==
    IF tool.type \notin ALLOWED_TOOL_TYPES THEN "ToolSecurityError"
    ELSE IF ~Truthy(tool.toolId) THEN "ToolValidationError"
    ELSE IF ~Truthy(tool.name) THEN "ToolValidationError"
    ELSE IF ~MatchesToolId(tool.toolId) THEN "ToolValidationError"
    ELSE IF tool.type \notin DOMAIN TOOL_REGISTRY THEN "ToolSecurityError"
    ELSE ""

\* The checks of execute_tool before the executor is called: the error
\* raised, or "" when the executor is called.
execute_tool_checks(tool) ==
    IF tool.type \notin ALLOWED_TOOL_TYPES THEN "ToolSecurityError"
    ELSE IF ~Truthy(tool.toolId) THEN "ToolValidationError"
    ELSE IF ~Truthy(tool.name) THEN "ToolValidationError"
    ELSE IF ~MatchesToolId(tool.toolId) THEN "ToolValidationError"
    ELSE IF tool.type \notin DOMAIN TOOL_REGISTRY THEN "ToolExecutionError"
    ELSE ""

\* The outcomes in which the executor returns a value; the last two are
\* met by direct callers only.
ReturnOutcomes == {"dict", "bare", "dict_with_metadata", "none"}

\* The error execute_tool raises for an outcome of the executor, or "".
execute_tool_error(outcome) ==
    CASE outcome \in ReturnOutcomes -> ""
      [] outcome \in {"ToolValidationError", "ToolSecurityError", "ToolExecutionError"} -> outcome
      [] outcome = "TimeoutError" -> "ToolExecutionError"
      [] OTHER -> "ToolExecutionError"

Dict(f) == [dict |-> f]

TOOL_METADATA == <<"_", "tool", "_", "metadata">>

\* The value the executor returned: a dict, a string, a dict that has a
\* '_tool_metadata' of its own, None.
ExecutorResult(outcome) ==
    CASE outcome = "dict" -> Dict(<<"data">> :> Str(<<"payload">>))
      [] outcome = "bare" -> Str(<<"payload">>)
      [] outcome = "dict_with_metadata" ->
             Dict((<<"data">> :> Str(<<"payload">>)) @@
                  (TOOL_METADATA :> [tool_id |-> <<"other">>, tool_type |-> "RSS"]))
      [] outcome = "none" -> [none |-> TRUE]

\* A bug execute_tool could have: the metadata is set only when the result
\* has none.
execute_tool_result_setdefault(tool, outcome) ==
    LET returned == ExecutorResult(outcome)
        result == IF "dict" \in DOMAIN returned THEN returned.dict
                  ELSE <<"result">> :> returned
        meta == [tool_id |-> tool.toolId, tool_type |-> tool.type]
    IN  Dict(result @@ (TOOL_METADATA :> meta))

\* The value execute_tool returns when the executor returned, lines 296-308:
\* a result that is not a dict is wrapped, and '_tool_metadata' is assigned.
execute_tool_result(tool, outcome) ==
    LET returned == ExecutorResult(outcome)
        result == IF "dict" \in DOMAIN returned THEN returned.dict
                  ELSE <<"result">> :> returned
        meta == [tool_id |-> tool.toolId, tool_type |-> tool.type]
    IN  Dict((TOOL_METADATA :> meta) @@ result)

\* params=None, the default of execute_tool.
NoneParams == [none |-> TRUE]

\* No direct call of execute_tool has been made.
NoDispatch ==
    [pc |-> "idle", tool |-> Tool(<<>>, "", <<>>), params |-> NoneParams,
     raised |-> "", result |-> <<>>, invoked |-> <<>>, executor_returned |-> <<>>]

\* execute_tool, lines 264-294, up to the await of the executor or the
\* raise of one of the checks.  invoked is the executors called.
execute_tool(tool, params) ==
    LET error == execute_tool_checks(tool)
        call == [NoDispatch EXCEPT !.tool = tool,
                                   !.params = IF params = NoneParams THEN <<>> ELSE params]
    IN  IF error # "" THEN [call EXCEPT !.pc = "raised", !.raised = error]
        ELSE [call EXCEPT !.pc = "executor", !.invoked = <<TOOL_REGISTRY[tool.type]>>]

\* execute_tool, lines 296-318: the executor returned, raised or timed out.
execute_tool_returned(call, outcome) ==
    LET error == execute_tool_error(outcome)
    IN  IF error # "" THEN [call EXCEPT !.pc = "raised", !.raised = error]
        ELSE [call EXCEPT !.pc = "returned",
                          !.executor_returned = ExecutorResult(outcome),
                          !.result = execute_tool_result(call.tool, outcome)]

(***************************************************************************)
(* tool_executor.py: validate_url.  A URL is the sequence of its           *)
(* characters.                                                             *)
(***************************************************************************)
Capitals ==
    <<"A", "B", "C", "D", "E", "F", "G", "H", "I", "J", "K", "L", "M",
      "N", "O", "P", "Q", "R", "S", "T", "U", "V", "W", "X", "Y", "Z">>

Smalls ==
    <<"a", "b", "c", "d", "e", "f", "g", "h", "i", "j", "k", "l", "m",
      "n", "o", "p", "q", "r", "s", "t", "u", "v", "w", "x", "y", "z">>

Letters == {Capitals[i] : i \in DOMAIN Capitals} \cup {Smalls[i] : i \in DOMAIN Smalls}

\* str.lower()
Lower(s) ==
    [i \in DOMAIN s |->
        IF \E j \in DOMAIN Capitals : Capitals[j] = s[i]
        THEN Smalls[CHOOSE j \in DOMAIN Capitals : Capitals[j] = s[i]]
        ELSE s[i]]

\* sub in s
Contains(s, sub) ==
    \E i \in 1..(Len(s) - Len(sub) + 1) : SubSeq(s, i, i + Len(sub) - 1) = sub

\* s.find(c) as a place of the sequence: 0 when c is not in s.
Find(s, c) ==
    IF \E i \in DOMAIN s : s[i] = c
    THEN CHOOSE i \in DOMAIN s : s[i] = c /\ \A j \in 1..(i - 1) : s[j] # c
    ELSE 0

\* urllib.parse.scheme_chars
scheme_chars == Letters \cup Digits \cup {"+", "-", "."}

\* The bracketed hosts of the inputs that ipaddress takes for IPv6 addresses.
IPv6Addresses == { <<":", ":", "1">> }

\* urlsplit: the network location of what follows the scheme, which is
\* what lies between a leading // and the first of / ? #.
netloc_of(rest) ==
    IF Len(rest) >= 2 /\ rest[1] = "/" /\ rest[2] = "/"
    THEN LET after == SubSeq(rest, 3, Len(rest))
             ends == {j \in DOMAIN after : after[j] \in {"/", "?", "#"}}
         IN  IF ends = {} THEN after
             ELSE SubSeq(after, 1, (CHOOSE j \in ends : \A k \in ends : j <= k) - 1)
    ELSE <<>>

\* netloc.partition('[')[2].partition(']')[0]
bracketed_host_of(inner) ==
    IF Find(inner, "]") = 0 THEN inner ELSE SubSeq(inner, 1, Find(inner, "]") - 1)

\* urlsplit: the ValueError for square brackets in the network location
\* that do not match or do not hold an IPv6 address.
netloc_raises(netloc, open, close) ==
    \/ (open > 0) # (close > 0)
    \/ /\ open > 0 /\ close > 0
       /\ bracketed_host_of(SubSeq(netloc, open + 1, Len(netloc))) \notin IPv6Addresses

\* urlsplit: the URL has a scheme that ends before the colon at place i.
has_scheme(url, i) ==
    /\ i > 1
    /\ url[1] \in Letters
    /\ \A j \in 1..(i - 1) : url[j] \in scheme_chars

\* urlsplit once the first colon, the scheme and the network location are
\* known.
urlsplit_result(scheme, netloc) ==
    IF netloc_raises(netloc, Find(netloc, "["), Find(netloc, "]"))
    THEN [raised |-> "ValueError", scheme |-> <<>>, netloc |-> <<>>]
    ELSE [raised |-> "", scheme |-> scheme, netloc |-> netloc]

urlsplit_from(url, i) ==
    IF has_scheme(url, i)
    THEN urlsplit_result(Lower(SubSeq(url, 1, i - 1)), netloc_of(SubSeq(url, i + 1, Len(url))))
    ELSE urlsplit_result(<<>>, netloc_of(url))

\* urllib.parse.urlsplit, for a URL of printable ASCII characters without
\* spaces: the scheme and the network location, or the ValueError raised.
urlsplit(url) == urlsplit_from(url, Find(url, ":"))

\* The substrings validate_url looks for in the lowered URL.
DangerousPatterns ==
    { <<"l", "o", "c", "a", "l", "h", "o", "s", "t">>,
      <<"1", "2", "7", ".", "0", ".", "0", ".", "1">>,
      <<"0", ".", "0", ".", "0", ".", "0">>,
      <<"f", "i", "l", "e", ":", "/", "/">> }

\* The character class [<>"';\\] of validate_url and of the sanitizer.
SuspiciousChars == {"<", ">", "\"", "'", ";", "\\"}

\* validate_url once the URL is parsed; lowered is the URL the patterns
\* are sought in.
validate_parsed(parsed, url, lowered) ==
    IF parsed.raised # "" THEN FALSE
    ELSE IF parsed.scheme \notin {<<"h", "t", "t", "p">>, <<"h", "t", "t", "p", "s">>} THEN FALSE
    ELSE IF \E dangerous \in DangerousPatterns : Contains(lowered, dangerous) THEN FALSE
    ELSE IF \E j \in DOMAIN url : url[j] \in SuspiciousChars THEN FALSE
    ELSE TRUE

\* A bug validate_url could have: the patterns are sought in the URL as
\* written, not in its lowered form.
validate_url_case_sensitive(url) == validate_parsed(urlsplit(url), url, url)

\* validate_url
validate_url(url) == validate_parsed(urlsplit(url), url, Lower(url))

(***************************************************************************)
(* tool_executor.py: validate_and_sanitize_input.  A str is the sequence   *)
(* of its characters; a value is a str, a number, a bool, a list, a dict,  *)
(* None, or an object of another type.                                     *)
(***************************************************************************)
MaxStringLength == 1000

MaxJsonLength == 5000

\* The first token of a key that is not a str (an int, say).
NotStr == "(not a str)"

\* isinstance(key, str)
IsStrKey(key) == key = <<>> \/ key[1] # NotStr

\* re.match(r'^[a-zA-Z0-9_]+$', key)
MatchesParamKey(key) ==
    LET body == BeforeDollar(key)
    IN  /\ body # <<>>
        /\ \A i \in 1..Len(body) : IsWord(body[i]) \/ body[i] \in Digits \/ body[i] = "_"

Repeat(c, n) == [i \in 1..n |-> c]

RECURSIVE SumSeq(_)
SumSeq(s) == IF s = <<>> THEN 0 ELSE Head(s) + SumSeq(Tail(s))

RECURSIVE SetToSeq(_)
SetToSeq(S) ==
    IF S = {} THEN <<>>
    ELSE LET x == CHOOSE x \in S : TRUE IN <<x>> \o SetToSeq(S \ {x})

\* len(str(n)) for an int n
RECURSIVE IntLen(_)
IntLen(n) ==
    IF n < 0 THEN 1 + IntLen(0 - n)
    ELSE IF n < 10 THEN 1 ELSE 1 + IntLen(n \div 10)

\* len(json.dumps(s)) for a str of printable ASCII characters and newlines:
\* the quotes, and two characters for each of " \ and newline.
JsonStrLen(s) ==
    2 + Len(s) + Cardinality({i \in DOMAIN s : s[i] \in {"\"", "\\", "\n"}})

\* json.dumps(value): the TypeError it raises, or the length of the text.
RECURSIVE json_dumps(_)
json_dumps(value) ==
    CASE "str" \in DOMAIN value -> [raised |-> "", len |-> JsonStrLen(value.str)]
      [] "num" \in DOMAIN value -> [raised |-> "", len |-> IntLen(value.num)]
      [] "bool" \in DOMAIN value -> [raised |-> "", len |-> IF value.bool THEN 4 ELSE 5]
      [] "none" \in DOMAIN value -> [raised |-> "", len |-> 4]
      [] "list" \in DOMAIN value ->
             LET items == [i \in DOMAIN value.list |-> json_dumps(value.list[i])]
                 n == Len(items)
             IN  IF \E i \in DOMAIN items : items[i].raised # ""
                 THEN [raised |-> "TypeError", len |-> 0]
                 ELSE [raised |-> "",
                       len |-> 2 + SumSeq([i \in DOMAIN items |-> items[i].len])
                                 + (IF n > 0 THEN 2 * (n - 1) ELSE 0)]
      [] "dict" \in DOMAIN value ->
             LET keys == SetToSeq(DOMAIN value.dict)
                 items == [i \in DOMAIN keys |-> json_dumps(value.dict[keys[i]])]
                 n == Len(keys)
             IN  IF \E i \in DOMAIN items : items[i].raised # ""
                 THEN [raised |-> "TypeError", len |-> 0]
                 ELSE [raised |-> "",
                       len |-> 2 + SumSeq([i \in DOMAIN keys |->
                                              JsonStrLen(keys[i]) + 2 + items[i].len])
                                 + (IF n > 0 THEN 2 * (n - 1) ELSE 0)]
      [] OTHER -> [raised |-> "TypeError", len |-> 0]

\* re.sub(r'[<>"\';\\]', '', value)
RemoveSuspicious(s) == SelectSeq(s, LAMBDA c : c \notin SuspiciousChars)

\* A bug the sanitizer could have: the string is cut before the characters
\* are removed.
sanitize_str_cuts_first(s) ==
    RemoveSuspicious(IF Len(s) > MaxStringLength THEN SubSeq(s, 1, MaxStringLength) ELSE s)

\* A bug the sanitizer could have: only the first of the characters is
\* removed, as re.sub does with count=1.
sanitize_str_first_occurrence(s) ==
    LET found == {i \in DOMAIN s : s[i] \in SuspiciousChars}
        first == CHOOSE i \in found : \A j \in found : i <= j
        sanitized_value == IF found = {} THEN s
                           ELSE SubSeq(s, 1, first - 1) \o SubSeq(s, first + 1, Len(s))
    IN  IF Len(sanitized_value) > MaxStringLength
        THEN SubSeq(sanitized_value, 1, MaxStringLength)
        ELSE sanitized_value

\* Lines 42-45: the characters are removed, then the string is cut.
sanitize_str(s) ==
    LET sanitized_value == RemoveSuspicious(s)
    IN  IF Len(sanitized_value) > MaxStringLength
        THEN SubSeq(sanitized_value, 1, MaxStringLength)
        ELSE sanitized_value

\* A bug the sanitizer could have: a value that json.dumps cannot serialize
\* is let through.
sanitize_value_ignores_type_error(value) ==
    IF "str" \in DOMAIN value
    THEN [raised |-> "", value |-> Str(sanitize_str(value.str))]
    ELSE IF "num" \in DOMAIN value \/ "bool" \in DOMAIN value
    THEN [raised |-> "", value |-> value]
    ELSE IF "list" \in DOMAIN value \/ "dict" \in DOMAIN value
    THEN LET dumped == json_dumps(value)
         IN  IF dumped.raised = "" /\ dumped.len > MaxJsonLength
             THEN [raised |-> "ToolValidationError", value |-> value]
             ELSE [raised |-> "", value |-> value]
    ELSE [raised |-> "ToolValidationError", value |-> value]

\* Lines 40-59, one value: the sanitized value, or the error raised.
sanitize_value(value) ==
    IF "str" \in DOMAIN value
    THEN [raised |-> "", value |-> Str(sanitize_str(value.str))]
    ELSE IF "num" \in DOMAIN value \/ "bool" \in DOMAIN value
    THEN [raised |-> "", value |-> value]
    ELSE IF "list" \in DOMAIN value \/ "dict" \in DOMAIN value
    THEN LET dumped == json_dumps(value)
         IN  IF dumped.raised # "" THEN [raised |-> "ToolValidationError", value |-> value]
             ELSE IF dumped.len > MaxJsonLength
             THEN [raised |-> "ToolValidationError", value |-> value]
             ELSE [raised |-> "", value |-> value]
    ELSE [raised |-> "ToolValidationError", value |-> value]

\* validate_and_sanitize_input: the loop raises at the first key or value
\* it rejects and otherwise fills sanitized_params key by key, so the
\* outcome is the error when any entry is rejected and the map of the
\* sanitized values when none is.
validate_and_sanitize_input(params) ==
    IF params = NoneParams \/ params = <<>> THEN [raised |-> "", value |-> <<>>]
    ELSE IF \E key \in DOMAIN params :
               \/ ~IsStrKey(key)
               \/ ~MatchesParamKey(key)
               \/ sanitize_value(params[key]).raised # ""
    THEN [raised |-> "ToolValidationError", value |-> <<>>]
    ELSE [raised |-> "", value |-> [key \in DOMAIN params |-> sanitize_value(params[key]).value]]

(***************************************************************************)
(* tool_executor.py: execute_api_tool and execute_rss_tool.  Each runs up  *)
(* to its HTTP request or to a raise; calls are the functions it has       *)
(* called, requests the requests it has sent.                              *)
(***************************************************************************)
MinApiKeyLength == 10

DefaultFeedItems == 10

MaxFeedItems == 100

MaxTitleLength == 200

\* The executor raised: ToolValidationError and ToolSecurityError are
\* re-raised, every other exception becomes ToolExecutionError.
executor_raised(error, calls) ==
    [pc |-> "raised",
     raised |-> IF error \in {"ToolValidationError", "ToolSecurityError"}
                THEN error ELSE "ToolExecutionError",
     calls |-> calls, requests |-> <<>>, value |-> <<>>]

\* A bug execute_api_tool could have: the parameters are sanitized before
\* the endpoint is looked at.
execute_api_tool_sanitizes_first(tool, params) ==
    LET sanitized_params == validate_and_sanitize_input(params)
        auth == tool.auth
    IN  IF sanitized_params.raised # ""
        THEN executor_raised(sanitized_params.raised, <<"validate_and_sanitize_input">>)
        ELSE IF ~Truthy(tool.endpoint)
        THEN executor_raised("ToolValidationError", <<"validate_and_sanitize_input">>)
        ELSE IF ~validate_url(tool.endpoint)
        THEN executor_raised("ToolSecurityError",
                             <<"validate_and_sanitize_input", "validate_url">>)
        ELSE [pc |-> "request", raised |-> "",
              calls |-> <<"validate_and_sanitize_input", "validate_url", "client.request">>,
              requests |-> <<[method |-> "GET", url |-> tool.endpoint,
                              params |-> sanitized_params.value]>>,
              value |-> <<>>]

\* execute_api_tool, lines 86-126, up to the await of client.request.
execute_api_tool(tool, params) ==
    LET sanitized_params == validate_and_sanitize_input(params)
        auth == tool.auth
    IN  IF ~Truthy(tool.endpoint)
        THEN executor_raised("ToolValidationError", <<>>)
        ELSE IF ~validate_url(tool.endpoint)
        THEN executor_raised("ToolSecurityError", <<"validate_url">>)
        ELSE IF sanitized_params.raised # ""
        THEN executor_raised(sanitized_params.raised,
                             <<"validate_url", "validate_and_sanitize_input">>)
        ELSE IF /\ auth # NoAuth
                /\ auth.type = "apiKey"
                /\ Len(auth.key) < MinApiKeyLength
        THEN executor_raised("ToolSecurityError",
                             <<"validate_url", "validate_and_sanitize_input">>)
        ELSE [pc |-> "request", raised |-> "",
              calls |-> <<"validate_url", "validate_and_sanitize_input", "client.request">>,
              requests |-> <<[method |-> "GET", url |-> tool.endpoint,
                              params |-> sanitized_params.value]>>,
              value |-> <<>>]

\* What the HTTP client does with a request.
HttpOutcomes == {"json", "text", "too_large", "TimeoutException", "HTTPStatusError", "RequestError"}

\* execute_api_tool, lines 128-154: the request returned or raised.
api_responded(call, outcome) ==
    CASE outcome = "json" ->
             [call EXCEPT !.pc = "returned", !.value = Dict(<<"result">> :> Str(<<"success">>))]
      [] outcome = "text" ->
             [call EXCEPT !.pc = "returned", !.value = Dict(<<"text">> :> Str(<<"body">>))]
      [] OTHER -> [call EXCEPT !.pc = "raised", !.raised = "ToolExecutionError"]

\* The entries of the feed that is fetched: title and link.
FeedEntries ==
    << [title |-> <<"N", "e", "w", "s", " ", "<", "b", ">", "t", "o", "d", "a", "y", "<", "/", "b", ">">>, link |-> <<"h", "t", "t", "p", "s", ":", "/", "/", "n", "e", "w", "s", ".", "e", "x", "a", "m", "p", "l", "e", ".", "c", "o", "m", "/", "1">>],
       [title |-> <<"L", "o", "c", "a", "l">>, link |-> <<"h", "t", "t", "p", ":", "/", "/", "l", "o", "c", "a", "l", "h", "o", "s", "t", "/", "a", "d", "m", "i", "n">>] >>

\* min(sanitized_params.get("limit", 10), 100): the TypeError it raises for
\* a limit that is not a number, or the limit.
feed_limit(sanitized_params) ==
    IF <<"limit">> \notin DOMAIN sanitized_params
    THEN [raised |-> "", limit |-> DefaultFeedItems]
    ELSE LET limit == sanitized_params[<<"limit">>]
         IN  IF "num" \in DOMAIN limit
             THEN [raised |-> "",
                   limit |-> IF limit.num < MaxFeedItems THEN limit.num ELSE MaxFeedItems]
             ELSE IF "bool" \in DOMAIN limit
             THEN [raised |-> "", limit |-> IF limit.bool THEN 1 ELSE 0]
             ELSE [raised |-> "TypeError", limit |-> 0]

\* execute_rss_tool, lines 167-221, up to the await of client.get.
execute_rss_tool(tool, params) ==
    LET sanitized_params == validate_and_sanitize_input(params)
        limit == feed_limit(sanitized_params.value)
    IN  IF ~Truthy(tool.url)
        THEN executor_raised("ToolValidationError", <<>>)
        ELSE IF ~validate_url(tool.url)
        THEN executor_raised("ToolSecurityError", <<"validate_url">>)
        ELSE IF sanitized_params.raised # ""
        THEN executor_raised(sanitized_params.raised,
                             <<"validate_url", "validate_and_sanitize_input">>)
        ELSE IF limit.raised # ""
        THEN executor_raised(limit.raised, <<"validate_url", "validate_and_sanitize_input">>)
        ELSE [pc |-> "request", raised |-> "",
              calls |-> <<"validate_url", "validate_and_sanitize_input", "client.get">>,
              requests |-> <<[method |-> "GET", url |-> tool.url, params |-> <<>>]>>,
              value |-> <<>>]

\* parse_rss_feed, lines 204-213, for a limit that is not negative: the
\* first limit entries, the title without the characters and cut, the link
\* kept when validate_url accepts it.
parse_rss_feed(limit) ==
    LET n == IF limit < Len(FeedEntries) THEN limit ELSE Len(FeedEntries)
    IN  [i \in 1..n |->
            LET title == RemoveSuspicious(FeedEntries[i].title)
            IN  [title |-> IF Len(title) > MaxTitleLength
                           THEN SubSeq(title, 1, MaxTitleLength) ELSE title,
                 link |-> IF validate_url(FeedEntries[i].link)
                          THEN FeedEntries[i].link ELSE <<>>]]

\* execute_rss_tool, lines 183-228: the request returned or raised.
rss_responded(call, params, outcome) ==
    CASE outcome \in {"json", "text"} ->
             [call EXCEPT !.pc = "returned",
                          !.calls = @ \o <<"parse_rss_feed">>,
                          !.value = Dict(<<"entries">> :>
                              [list |-> parse_rss_feed(
                                  feed_limit(validate_and_sanitize_input(params).value).limit)])]
      [] OTHER -> [call EXCEPT !.pc = "raised", !.raised = "ToolExecutionError"]

(***************************************************************************)
(* tool_executor.py: add_tool_type and remove_tool_type.  A type name is a *)
(* string of the model; Chars gives its characters.                        *)
(***************************************************************************)
UpperLetters ==
    {"A", "B", "C", "D", "E", "F", "G", "H", "I", "J", "K", "L", "M",
     "N", "O", "P", "Q", "R", "S", "T", "U", "V", "W", "X", "Y", "Z"}

Chars ==
    ("API" :> <<"A", "P", "I">>) @@
    ("EMAIL" :> <<"E", "M", "A", "I", "L">>) @@
    ("SHELL" :> <<"S", "H", "E", "L", "L">>) @@
    ("HOOK_2" :> <<"H", "O", "O", "K", "_", "2">>) @@
    ("HOOK\n" :> <<"H", "O", "O", "K", "\n">>) @@
    ("shell" :> <<"s", "h", "e", "l", "l">>) @@
    ("MY-TOOL" :> <<"M", "Y", "-", "T", "O", "O", "L">>) @@
    ("2FA" :> <<"2", "F", "A">>) @@
    ("" :> <<>>)

\* re.match(r'^[A-Z][A-Z0-9_]*$', tool_type)
MatchesToolType(tool_type) ==
    LET body == BeforeDollar(Chars[tool_type])
    IN  /\ body # <<>>
        /\ body[1] \in UpperLetters
        /\ \A i \in 2..Len(body) : body[i] \in UpperLetters \cup Digits \cup {"_"}

\* No direct call has been made.
NothingCalled ==
    [fn |-> "", args |-> <<>>, pc |-> "idle", raised |-> "", value |-> <<>>,
     calls |-> <<>>, requests |-> <<>>, before |-> <<>>]

\* The registry and the allow-list as a call finds them.
Globals == [TOOL_REGISTRY |-> TOOL_REGISTRY, ALLOWED_TOOL_TYPES |-> ALLOWED_TOOL_TYPES]

\* A bug add_tool_type could have: the executor is registered and the
\* allow-list is left alone, as the module's own assignments do.
add_tool_type_registry_only(tool_type, executor_func) ==
    IF ~MatchesToolType(tool_type)
    THEN [raised |-> "ValueError", globals |-> Globals]
    ELSE [raised |-> "",
          globals |-> [Globals EXCEPT !.TOOL_REGISTRY = (tool_type :> executor_func) @@ @]]

\* A bug add_tool_type could have: the type is allow-listed and the executor
\* is not registered.
add_tool_type_allow_list_only(tool_type, executor_func) ==
    IF ~MatchesToolType(tool_type)
    THEN [raised |-> "ValueError", globals |-> Globals]
    ELSE [raised |-> "",
          globals |-> [Globals EXCEPT !.ALLOWED_TOOL_TYPES = @ \cup {tool_type}]]

\* add_tool_type: raised is the exception, globals the registry and the
\* allow-list it leaves.
add_tool_type(tool_type, executor_func) ==
    IF ~MatchesToolType(tool_type)
    THEN [raised |-> "ValueError", globals |-> Globals]
    ELSE [raised |-> "",
          globals |-> [TOOL_REGISTRY |-> (tool_type :> executor_func) @@ TOOL_REGISTRY,
                       ALLOWED_TOOL_TYPES |-> ALLOWED_TOOL_TYPES \cup {tool_type}]]

\* A bug remove_tool_type could have: the allow-list keeps the type.
remove_tool_type_registry_only(tool_type) ==
    IF tool_type \in DOMAIN TOOL_REGISTRY
    THEN [raised |-> "",
          globals |-> [Globals EXCEPT !.TOOL_REGISTRY =
                          [t \in DOMAIN TOOL_REGISTRY \ {tool_type} |-> TOOL_REGISTRY[t]]]]
    ELSE [raised |-> "", globals |-> Globals]

\* remove_tool_type
remove_tool_type(tool_type) ==
    IF tool_type \in DOMAIN TOOL_REGISTRY
    THEN [raised |-> "",
          globals |-> [TOOL_REGISTRY |->
                           [t \in DOMAIN TOOL_REGISTRY \ {tool_type} |-> TOOL_REGISTRY[t]],
                       ALLOWED_TOOL_TYPES |-> ALLOWED_TOOL_TYPES \ {tool_type}]]
    ELSE [raised |-> "", globals |-> Globals]

(***************************************************************************)
(* llm_handler.py: get_llm_response returns the completion, and returns a  *)
(* sentence about the failure (it never raises) when the provider has no   *)
(* client or the provider's API raises.                                    *)
(***************************************************************************)
clients == {"openai"}

LLM_COMPLETION == Str(<<"completion">>)
LLM_NOT_CONFIGURED == Str(<<"LLM", " ", "provider", " ", "is", " ", "not", " ", "configured">>)
LLM_API_ERROR == Str(<<"I", "'", "m", " ", "sorry">>)

\* What the provider's API does when it is awaited.
LlmOutcomes == {"completion", "error"}

get_llm_response(outcome) ==
    IF outcome = "completion" THEN LLM_COMPLETION ELSE LLM_API_ERROR

(***************************************************************************)
(* workflow_engine.py: WorkflowExecutor.  An executor is a record: the     *)
(* fields of the object (agent_config, context, execution_log,             *)
(* failed_steps), the frame of the run() in progress (pc, workflow_id,     *)
(* sorted_nodes, idx, attempt, last_exception, call) and what run() ended  *)
(* with (raised, result).  pc is the suspension point the run waits at:    *)
(* "llm", "tool", "insert" (a collaborator call) or "sleep" (the backoff), *)
(* or "idle", "returned", "raised" when no run is in progress.             *)
(* The history fields record, for the run in progress, what the engine did:*)
(* runs (the run() calls so far), start (the context, and the lengths of   *)
(* the log and of failed_steps, when the run began its loop, and the       *)
(* initial_context run() was given), node_context                          *)
(* (the context when the node was handed to execute_node), contexts (the   *)
(* same, for every node handed to execute_node so far), executed (the      *)
(* places in sorted_nodes handed to execute_node), attempted (the attempts *)
(* the retry decorator made), invoked (the collaborator and dispatcher     *)
(* calls), slept (the backoff waits, each with the error before it) and    *)
(* logged (for each entry of execution_log, the place in sorted_nodes of   *)
(* the node it is about).                                                  *)
(***************************************************************************)
EmptyContext == <<>>

LAST_RESPONSE == <<"_", "last", "_", "response">>
EXECUTION_SUMMARY == <<"_", "execution", "_", "summary">>

NoCall == [kind |-> "none"]

\* WorkflowExecutor.__init__
NewExecutor(agent_config) ==
    [agent_config |-> agent_config,
     context |-> EmptyContext,
     execution_log |-> <<>>,
     failed_steps |-> <<>>,
     pc |-> "idle",
     workflow_id |-> "",
     sorted_nodes |-> <<>>,
     idx |-> 0,
     attempt |-> 0,
     last_exception |-> "",
     call |-> NoCall,
     raised |-> "",
     result |-> EmptyContext,
     runs |-> 0,
     start |-> [context |-> EmptyContext, log |-> 0, failed |-> 0, given |-> EmptyContext],
     node_context |-> EmptyContext,
     contexts |-> <<>>,
     executed |-> <<>>,
     attempted |-> <<>>,
     invoked |-> <<>>,
     slept |-> <<>>,
     logged |-> <<>>]

\* The node the run is at.
Node(e) == e.sorted_nodes[e.idx]

\* d with d[k] = v (a dict assignment).
SetItem(d, k, v) == (k :> v) @@ d

\* A bug _log_step could have: a failure is not put in failed_steps.
log_step_forgets_failed(e, node_id, step_type, status, details) ==
    LET log_entry == [node_id |-> node_id, step_type |-> step_type,
                      status |-> status, details |-> details]
    IN  [e EXCEPT !.execution_log = Append(@, log_entry),
                  !.logged = Append(@, e.idx)]

\* _log_step.  The entry's timestamp (the event loop's clock) and the node
\* configuration copied into the details of a failure are left out.
log_step(e, node_id, step_type, status, details) ==
    LET log_entry == [node_id |-> node_id, step_type |-> step_type,
                      status |-> status, details |-> details]
    IN  [e EXCEPT !.execution_log = Append(@, log_entry),
                  !.failed_steps = IF status = "failed" THEN Append(@, log_entry) ELSE @,
                  !.logged = Append(@, e.idx)]

\* The retry decorator's arguments: @retry_on_failure(max_retries=3, delay=1.0),
\* the mutants: the node's own fields.
retry_max_retries_of_node(node) == node.max_retries

retry_max_retries(node) == 3

retry_delay_of_node(node) == node.retry_delay

retry_delay(node) == 1

RECURSIVE Pow2(_)
Pow2(n) == IF n = 0 THEN 1 ELSE 2 * Pow2(n - 1)

\* Bugs _handle_failure_action could have: 'stop' treated as 'continue',
\* 'continue' treated as 'stop', 'retry' treated as 'continue'.
handle_failure_action_never_stops(node) ==
    node.on_failure \in {<<"continue">>, <<"stop">>}

handle_failure_action_always_stops(node) == FALSE

handle_failure_action_retry_continues(node) ==
    node.on_failure \in {<<"continue">>, <<"retry">>}

\* _handle_failure_action, called with a non-empty on_failure: should the run continue?
handle_failure_action(node) ==
    IF node.on_failure = <<"continue">> THEN TRUE
    ELSE IF node.on_failure = <<"stop">> THEN FALSE
    ELSE IF node.on_failure = <<"retry">> THEN FALSE
    ELSE FALSE

\* run(), lines 294-304: the summary is put in the context and the context returned.
\* The summary's execution_log is the executor's list itself, not a copy.
run_returns(e) ==
    LET summary == [workflow_id |-> e.workflow_id,
                    total_steps |-> Len(e.sorted_nodes),
                    failed_steps |-> Len(e.failed_steps)]
        ctx == SetItem(e.context, EXECUTION_SUMMARY, [summary |-> summary])
    IN  [e EXCEPT !.context = ctx, !.result = ctx, !.pc = "returned", !.call = NoCall]

\* run(), lines 306-308: every exception leaves run() as WorkflowExecutionError.
run_raises(e) ==
    [e EXCEPT !.pc = "raised", !.raised = "WorkflowExecutionError", !.call = NoCall]

RECURSIVE run_from(_, _)

\* run(), lines 282-285: execute_node returned should_continue.
node_returned(e, should_continue) ==
    IF should_continue THEN run_from(e, e.idx + 1) ELSE run_returns(e)

\* Bugs the run loop could have: continue_on_error not consulted.
step_error_always_aborts(e) == run_raises(e)

step_error_always_continues(e) == run_from(e, e.idx + 1)

\* run(), lines 286-292: execute_node raised WorkflowStepError.
step_error(e) ==
    IF ~Node(e).continue_on_error THEN run_raises(e)
    ELSE run_from(e, e.idx + 1)

\* A bug execute_node could have: continue_on_error overrules an on_failure
\* action that stops the run.
node_failed_or_continue_on_error(e, error_type) ==
    LET e1 == log_step(e, Node(e).nodeId, Node(e).type, "failed",
                       [error_type |-> error_type])
    IN  IF Truthy(Node(e).on_failure)
        THEN node_returned(e1, handle_failure_action(Node(e)) \/ Node(e).continue_on_error)
        ELSE step_error(e1)

\* execute_node, lines 92-106: the node's operation raised.
node_failed(e, error_type) ==
    LET e1 == log_step(e, Node(e).nodeId, Node(e).type, "failed",
                       [error_type |-> error_type])
    IN  IF Truthy(Node(e).on_failure)
        THEN node_returned(e1, handle_failure_action(Node(e)))
        ELSE step_error(e1)

\* execute_node, lines 89-90: the node's operation returned.
node_succeeded(e) ==
    node_returned(log_step(e, Node(e).nodeId, Node(e).type, "success", <<>>), TRUE)

\* A bug retry_on_failure could have: max_retries counted as the retries
\* after the first attempt, one attempt more than max_retries.
attempt_failed_one_more(e, error_type) ==
    LET e1 == [e EXCEPT !.last_exception = error_type]
        seconds == retry_delay(Node(e)) * Pow2(e.attempt)
    IN  IF e.attempt < retry_max_retries(Node(e))
        THEN [e1 EXCEPT !.pc = "sleep",
                        !.call = [kind |-> "sleep", seconds |-> seconds],
                        !.slept = Append(@, [idx |-> e.idx, seconds |-> seconds,
                                             error |-> error_type])]
        ELSE node_failed(e1, error_type)

\* retry_on_failure, lines 33-40: an attempt raised.
attempt_failed(e, error_type) ==
    LET e1 == [e EXCEPT !.last_exception = error_type]
        seconds == retry_delay(Node(e)) * Pow2(e.attempt)
    IN  IF e.attempt < retry_max_retries(Node(e)) - 1
        THEN [e1 EXCEPT !.pc = "sleep",
                        !.call = [kind |-> "sleep", seconds |-> seconds],
                        !.slept = Append(@, [idx |-> e.idx, seconds |-> seconds,
                                             error |-> error_type])]
        ELSE node_failed(e1, error_type)

\* A bug _execute_llm_node could have: the response is not stored.
llm_returned_discards(e, llm_response) == node_succeeded(e)

\* _execute_llm_node, lines 122-125: get_llm_response returned.
llm_returned(e, llm_response) ==
    node_succeeded(
        IF Truthy(Node(e).output_variable)
        THEN [e EXCEPT !.context = SetItem(@, Node(e).output_variable, llm_response)]
        ELSE e)

\* _execute_llm_node, one attempt, up to the await of the provider's API.
execute_llm_node(e) ==
    LET node == Node(e)
        prompt_template == IF Truthy(node.prompt) THEN node.prompt ELSE <<>>
        resolved_prompt == Format(prompt_template, e.context)
        e1 == [e EXCEPT !.invoked = Append(@, [kind |-> "get_llm_response", idx |-> e.idx])]
    IN  IF ~resolved_prompt.ok THEN attempt_failed(e, resolved_prompt.error)
        ELSE IF e.agent_config.llmConfig.provider \notin clients
        THEN llm_returned(e1, LLM_NOT_CONFIGURED)
        ELSE [e1 EXCEPT !.pc = "llm",
                        !.call = [kind |-> "llm", user_message |-> resolved_prompt.value]]

\* A bug the resolution could have: a reference to a variable the context
\* lacks is passed as it is written.
ResolveParams_keeps_reference(params, ctx) ==
    LET IsRef(v) == "str" \in DOMAIN v /\ StartsWith(v.str, "$")
        Var(v) == StripChar(v.str, "$")
    IN  [k \in DOMAIN params |->
            IF IsRef(params[k]) /\ Var(params[k]) \in DOMAIN ctx
            THEN ctx[Var(params[k])] ELSE params[k]]

\* _execute_tool_call_node, lines 171-182: the parameters of the call.
ResolveParams(params, ctx) ==
    LET IsRef(v) == "str" \in DOMAIN v /\ StartsWith(v.str, "$")
        Var(v) == StripChar(v.str, "$")
        kept == {k \in DOMAIN params : ~IsRef(params[k]) \/ Var(params[k]) \in DOMAIN ctx}
    IN  [k \in kept |-> IF IsRef(params[k]) THEN ctx[Var(params[k])] ELSE params[k]]

\* _execute_tool_call_node, lines 186-189: execute_tool returned.
tool_returned(e, result) ==
    node_succeeded(
        IF Truthy(Node(e).output_variable)
        THEN [e EXCEPT !.context = SetItem(@, Node(e).output_variable, result)]
        ELSE e)

\* A bug the lookup could have: the agent's first tool when none has the id.
find_tool_or_first(tools, tool_id) ==
    LET found == {i \in 1..Len(tools) : tools[i].toolId = tool_id}
    IN  IF found = {} THEN 1..Len(tools) ELSE found

\* _execute_tool_call_node, line 167: the places of the tools with this toolId.
find_tool(tools, tool_id) ==
    {i \in 1..Len(tools) : tools[i].toolId = tool_id}

\* _execute_tool_call_node, one attempt, up to the await of the tool's executor.
execute_tool_call_node(e) ==
    LET node == Node(e)
        tool_id == node.toolId
        tools == e.agent_config.tools
        found == find_tool(tools, tool_id)
        tool_to_execute == tools[CHOOSE i \in found : \A j \in found : i <= j]
        params == ResolveParams(node.params, e.context)
        e1 == [e EXCEPT !.invoked = Append(@, [kind |-> "execute_tool", idx |-> e.idx])]
        error == execute_tool_checks(tool_to_execute)
    IN  IF ~Truthy(tool_id) THEN attempt_failed(e, "WorkflowStepError")
        ELSE IF found = {} THEN attempt_failed(e, "WorkflowStepError")
        ELSE IF error # "" THEN attempt_failed(e1, error)
        ELSE [e1 EXCEPT !.pc = "tool",
                        !.call = [kind |-> "tool", tool |-> tool_to_execute, params |-> params],
                        !.invoked = Append(@, [kind |-> "executor", idx |-> e.idx])]

\* What insert_one does to the document it is given before it sends it
\* (pymongo: a mapping without '_id' gets document['_id'] = ObjectId()).
\* The dict is changed in place, whether the insert then succeeds or fails.
OBJECT_ID == <<"_", "id">>

with_object_id(document) ==
    IF "dict" \notin DOMAIN document THEN document
    ELSE IF OBJECT_ID \in DOMAIN document.dict THEN document
    ELSE Dict((OBJECT_ID :> [other |-> "ObjectId"]) @@ document.dict)

\* _execute_data_store_node, lines 142 and 147: data_to_store is the object
\* context[variable_name] itself, so what insert_one does to the document
\* it does to the context.
insert_one_called(e, variable_name) ==
    [e EXCEPT !.context = SetItem(@, variable_name, with_object_id(e.context[variable_name]))]

\* _execute_data_store_node, up to the await of insert_one.
execute_data_store_node(e) ==
    LET node == Node(e)
        is_ref == Truthy(node.data) /\ StartsWith(node.data, "$")
        variable_name == StripChar(node.data, "$")
        data_to_store == IF is_ref THEN e.context[variable_name]
                         ELSE IF node.data = None THEN [none |-> TRUE]
                         ELSE Str(node.data)
        e1 == IF is_ref THEN insert_one_called(e, variable_name) ELSE e
    IN  IF e.agent_config.dataSchema = None THEN node_failed(e, "AttributeError")
        ELSE IF ~Truthy(e.agent_config.dataSchema) THEN node_failed(e, "ValueError")
        ELSE IF is_ref /\ variable_name \notin DOMAIN e.context
        THEN node_failed(e, "WorkflowStepError")
        ELSE IF node.action = <<"append">>
        THEN [e1 EXCEPT !.pc = "insert",
                        !.call = [kind |-> "insert", document |-> with_object_id(data_to_store)],
                        !.invoked = Append(@, [kind |-> "insert_one", idx |-> e.idx])]
        ELSE node_failed(e, "WorkflowStepError")

\* A bug _execute_send_response_node could have: a reference to a variable
\* the context lacks resolves to None, and the step succeeds.
execute_send_response_node_missing_is_none(e) ==
    LET node == Node(e)
        message == IF Truthy(node.message) THEN node.message ELSE <<>>
        variable_name == StripChar(message, "$")
        rendered == Format(message, e.context)
    IN  IF StartsWith(message, "$")
        THEN node_succeeded([e EXCEPT !.context =
                 SetItem(@, LAST_RESPONSE,
                         IF variable_name \in DOMAIN e.context
                         THEN e.context[variable_name] ELSE [none |-> TRUE])])
        ELSE IF ~rendered.ok THEN node_failed(e, rendered.error)
        ELSE node_succeeded([e EXCEPT !.context =
                                SetItem(@, LAST_RESPONSE, Str(rendered.value))])

\* _execute_send_response_node
execute_send_response_node(e) ==
    LET node == Node(e)
        message == IF Truthy(node.message) THEN node.message ELSE <<>>
        variable_name == StripChar(message, "$")
        rendered == Format(message, e.context)
    IN  IF StartsWith(message, "$")
        THEN IF variable_name \notin DOMAIN e.context
             THEN node_failed(e, "WorkflowStepError")
             ELSE node_succeeded([e EXCEPT !.context =
                                     SetItem(@, LAST_RESPONSE, e.context[variable_name])])
        ELSE IF ~rendered.ok THEN node_failed(e, rendered.error)
        ELSE node_succeeded([e EXCEPT !.context =
                                SetItem(@, LAST_RESPONSE, Str(rendered.value))])

\* _execute_conditional_node: with a condition it returns True, and
\* execute_node returns that without logging the step.
execute_conditional_node(e) ==
    IF ~Truthy(Node(e).condition) THEN node_failed(e, "WorkflowStepError")
    ELSE node_returned(e, TRUE)

\* retry_on_failure, lines 30-32: one attempt of the node's operation.
attempt_node(e) ==
    LET e1 == [e EXCEPT !.attempted = Append(@, e.idx)]
    IN  IF Node(e).type = "llm_prompt" THEN execute_llm_node(e1)
        ELSE execute_tool_call_node(e1)

\* execute_node, lines 70-87
execute_node(e) ==
    LET node_type == Node(e).type
    IN  IF node_type \in {"llm_prompt", "tool_call"} THEN attempt_node(e)
        ELSE IF node_type = "data_store" THEN execute_data_store_node(e)
        ELSE IF node_type = "send_response" THEN execute_send_response_node(e)
        ELSE IF node_type = "conditional_logic" THEN execute_conditional_node(e)
        ELSE node_failed(e, "WorkflowStepError")

\* run(), lines 280-282 and 294: the loop from the k-th sorted node on, up
\* to the next suspension point or the end of run().
run_from(e, k) ==
    IF k > Len(e.sorted_nodes) THEN run_returns(e)
    ELSE execute_node([e EXCEPT !.idx = k, !.attempt = 0, !.call = NoCall,
                                !.node_context = e.context,
                                !.contexts = Append(@, e.context),
                                !.executed = Append(@, k)])

\* run(), lines 266-280, up to the first suspension point or the end of run().
run(e, workflow_id, initial_context) ==
    LET e1 == [e EXCEPT !.context = initial_context @@ @,
                        !.workflow_id = workflow_id,
                        !.sorted_nodes = <<>>, !.idx = 0, !.attempt = 0,
                        !.last_exception = "", !.call = NoCall,
                        !.raised = "", !.result = EmptyContext,
                        !.runs = @ + 1,
                        !.start = [context |-> initial_context @@ e.context,
                                   log |-> Len(e.execution_log),
                                   failed |-> Len(e.failed_steps),
                                   given |-> initial_context],
                        !.node_context = EmptyContext, !.contexts = <<>>,
                        !.executed = <<>>, !.attempted = <<>>, !.invoked = <<>>,
                        !.slept = <<>>,
                        !.logged = [j \in 1..Len(e.execution_log) |-> 0]]
        workflows == e.agent_config.workflows
        found == find_workflow(workflows, workflow_id)
        workflow_to_run == workflows[CHOOSE i \in found : \A j \in found : i <= j]
        sorted == sorted_nodes_of(workflow_to_run.nodes)
    IN  IF found = {} THEN run_raises(e1)
        ELSE IF sorted.raised # "" THEN run_raises(e1)
        ELSE run_from([e1 EXCEPT !.sorted_nodes = sorted.nodes], 1)

\* get_execution_summary
get_execution_summary(e) ==
    [execution_log |-> e.execution_log,
     failed_steps |-> e.failed_steps,
     context |-> e.context,
     total_steps_executed |-> Len(e.execution_log),
     failed_step_count |-> Len(e.failed_steps)]

(***************************************************************************)
(* The inputs: the agents an executor is constructed with and the          *)
(* arguments of run().                                                     *)
(***************************************************************************)
\* The tools of the agent: a well-formed API tool, a tool of a type that has
\* an executor and is not on the allow-list, and a tool with a malformed id.
AgentTools ==
    << Tool(<<"search">>, "API", <<"Search">>),
       Tool(<<"mailer">>, "EMAIL", <<"Mailer">>),
       Tool(<<"bad", " ", "id">>, "API", <<"Bad">>) >>

\* The initial_context values run() is called with.
InitialContexts ==
    { EmptyContext,
      (<<"topic">> :> Str(<<"cats">>))
          @@ (<<"note">> :> Dict(<<"title">> :> Str(<<"hi">>))) }

WorkflowIds == {"wf", "unknown"}

\* The on_failure values: absent, the three documented ones, an unknown one.
OnFailures == {None, <<"continue">>, <<"stop">>, <<"retry">>, <<"skip">>}

Policies(nodes) ==
    {[n EXCEPT !.on_failure = f, !.continue_on_error = c] :
        n \in nodes, f \in OnFailures, c \in BOOLEAN}

\* Nodes that succeed whatever the context holds.
PlainNodes(id) ==
    { [WorkflowNode(id, "send_response") EXCEPT !.message = <<"hi">>],
      [WorkflowNode(id, "llm_prompt") EXCEPT
          !.prompt = <<"Tell", " ", "me">>, !.output_variable = <<"answer">>] }

\* Nodes of every type, most of which can fail.
FailableNodes(id) ==
    { [WorkflowNode(id, "send_response") EXCEPT !.message = <<"$", "greeting">>],
      [WorkflowNode(id, "send_response") EXCEPT !.message = <<"$", "topic">>],
      [WorkflowNode(id, "send_response") EXCEPT !.message = <<"On", " ", "{", "topic", "}">>],
      [WorkflowNode(id, "llm_prompt") EXCEPT
          !.prompt = <<"About", " ", "{", "topic", "}">>, !.output_variable = <<"answer">>],
      [WorkflowNode(id, "llm_prompt") EXCEPT !.prompt = <<"Say", " ", "{", "topic", "}">>],
      [WorkflowNode(id, "tool_call") EXCEPT
          !.toolId = <<"search">>, !.output_variable = <<"found">>,
          !.params = (<<"q">> :> Str(<<"$", "topic">>)) @@ (<<"m">> :> Str(<<"$", "missing">>))
                         @@ (<<"n">> :> Str(<<"5">>)) @@ (<<"limit">> :> [num |-> 5])],
      [WorkflowNode(id, "tool_call") EXCEPT !.toolId = <<"mailer">>],
      [WorkflowNode(id, "tool_call") EXCEPT !.toolId = <<"bad", " ", "id">>],
      [WorkflowNode(id, "tool_call") EXCEPT !.toolId = <<"missing", "_", "tool">>],
      WorkflowNode(id, "tool_call"),
      [WorkflowNode(id, "tool_call") EXCEPT !.toolId = <<>>],
      [WorkflowNode(id, "data_store") EXCEPT !.action = <<"append">>, !.data = <<"$", "note">>],
      [WorkflowNode(id, "data_store") EXCEPT !.action = <<"update">>, !.data = <<"$", "note">>],
      [WorkflowNode(id, "conditional_logic") EXCEPT !.condition = <<"x", " ", ">", " ", "1">>],
      WorkflowNode(id, "conditional_logic"),
      WorkflowNode(id, "loop") }

\* Retried nodes that set their own max_retries and retry_delay.
RetryConfigured(nodes) ==
    {[n EXCEPT !.max_retries = 5, !.retry_delay = 2] :
        n \in {m \in nodes : m.type \in {"llm_prompt", "tool_call"}}}

PolicyNodes(id) ==
    Policies(FailableNodes(id) \cup RetryConfigured(FailableNodes(id)))

\* The nodeId values: integers in and out of string order, one with a
\* leading zero, a negative one, and one that int() rejects.
NodeIds == {<<"1">>, <<"2">>, <<"1", "0">>, <<"0", "2">>, <<"-", "1">>, <<"1", "x">>}

\* The nodeId of the p-th declared node of a policy workflow: "2", "1",
\* "10", "20", ..., so that the execution order is not the declaration order.
IdAt(p) ==
    IF p = 1 THEN <<"2">>
    ELSE IF p = 2 THEN <<"1">>
    ELSE <<CHOOSE c \in Digits : DigitVal(c) = p - 2, "0">>

WithId(node, id) == [node EXCEPT !.nodeId = id]

\* The node lists of length n whose p-th node is one of nodes, with nodeId IdAt(p).
ListsOf(nodes, n) ==
    {[p \in 1..n |-> WithId(w[p], IdAt(p))] : w \in [1..n -> nodes]}

\* Workflows that test the failure policy: one node of any type and policy
\* among plain nodes.
PolicyWorkflows ==
    UNION {{[w EXCEPT ![p] = v] : v \in PolicyNodes(IdAt(p))} :
              <<w, p>> \in UNION {ListsOf(PlainNodes(<<"0">>), n) \X (1..n) : n \in 1..MaxNodes}}

\* Workflows in which several nodes fail: every node fails or succeeds at
\* once (a send_response of a variable the caller may supply), under any policy.
FailingWorkflows ==
    UNION {ListsOf(Policies({[WorkflowNode(<<"0">>, "send_response") EXCEPT
                                 !.message = <<"$", "topic">>]}), n) : n \in 0..MaxNodes}

\* Workflows that test the order: nodes with any nodeId, that succeed or
\* fail and let the run continue.
OrderNodes ==
    UNION {{ [WorkflowNode(id, "send_response") EXCEPT !.message = <<"hi">>],
             [WorkflowNode(id, "send_response") EXCEPT
                 !.message = <<"$", "greeting">>, !.continue_on_error = TRUE] } : id \in NodeIds}

NodeLists ==
    PolicyWorkflows
        \cup FailingWorkflows
        \cup UNION {[1..n -> OrderNodes] : n \in 0..MaxNodes}

AgentModel(nodes) ==
    [tools |-> AgentTools,
     workflows |-> <<[workflowId |-> "wf", nodes |-> nodes]>>,
     llmConfig |-> [provider |-> "openai"],
     dataSchema |-> <<"notes">>]

Agents == {AgentModel(nodes) : nodes \in NodeLists}

(***************************************************************************)
(* The state machine.                                                      *)
(***************************************************************************)
ExecutorIds == {1}

\* A bug the class could have: context as an attribute of the class, one
\* dict that every executor writes to.
Update_shared_context(i, e) ==
    [j \in DOMAIN executor |->
        IF j = i THEN e ELSE [executor[j] EXCEPT !.context = e.context]]

\* The executors after a step of executor i that leaves it as e: context,
\* execution_log and failed_steps are attributes of the instance
\* (__init__, lines 46-49), and the frame of run() is its own.
Update(i, e) == [executor EXCEPT ![i] = e]

Init ==
    /\ executor \in [ExecutorIds -> {NewExecutor(a) : a \in Agents}]
    /\ TOOL_REGISTRY = [t \in {"API", "RSS", "DATABASE", "TELEGRAM", "SCHEDULING", "EMAIL"} |->
                           CASE t = "API" -> "execute_api_tool"
                             [] t = "RSS" -> "execute_rss_tool"
                             [] t = "DATABASE" -> "execute_database_tool"
                             [] t = "TELEGRAM" -> "execute_telegram_tool"
                             [] t = "SCHEDULING" -> "execute_scheduling_tool"
                             [] t = "EMAIL" -> "execute_email_tool"]
    /\ ALLOWED_TOOL_TYPES = {"API", "RSS", "DATABASE", "TELEGRAM"}
    /\ user_data = <<>>
    /\ sessions_collection = <<>>
    /\ telegram_auth = <<>>
    /\ smart_conversations = <<>>
    /\ tasks = <<>>
    /\ utcnow = 0
    /\ dispatch = NoDispatch
    /\ called = NothingCalled

\* A caller awaits run(workflow_id, initial_context) of executor i, which it
\* has just constructed (main.py:443-450, main.py:943-944, scheduler.py:57-58).
Run(i) ==
    /\ executor[i].pc = "idle"
    /\ \E workflow_id \in WorkflowIds, initial_context \in InitialContexts :
           executor' = Update(i, run(executor[i], workflow_id, initial_context))
    /\ UNCHANGED <<TOOL_REGISTRY, ALLOWED_TOOL_TYPES, user_data, dispatch, called, managers>>

\* The provider's API call of an llm_prompt node returns or raises.
LlmReturns(i) ==
    /\ executor[i].pc = "llm"
    /\ \E outcome \in LlmOutcomes :
           executor' = Update(i, llm_returned(executor[i], get_llm_response(outcome)))
    /\ UNCHANGED <<TOOL_REGISTRY, ALLOWED_TOOL_TYPES, user_data, dispatch, called, managers>>

\* The executor of a tool_call node's tool returns, raises or times out.
ToolReturns(i) ==
    /\ executor[i].pc = "tool"
    /\ \E outcome \in ExecutorOutcomes :
           LET e == executor[i]
               error == execute_tool_error(outcome)
           IN  executor' = Update(i,
                   IF error # "" THEN attempt_failed(e, error)
                   ELSE tool_returned(e, execute_tool_result(e.call.tool, outcome)))
    /\ UNCHANGED <<TOOL_REGISTRY, ALLOWED_TOOL_TYPES, user_data, dispatch, called, managers>>

\* insert_one of a data_store node returns or raises; it inserts a
\* document (a map) only.
InsertReturns(i) ==
    /\ executor[i].pc = "insert"
    /\ LET e == executor[i]
       IN  \/ /\ "dict" \in DOMAIN e.call.document
              /\ user_data' = Append(user_data, e.call.document)
              /\ executor' = Update(i, node_succeeded(e))
           \/ /\ user_data' = user_data
              /\ executor' = Update(i, node_failed(e, "PyMongoError"))
    /\ UNCHANGED <<TOOL_REGISTRY, ALLOWED_TOOL_TYPES, dispatch, called, managers>>

\* The backoff sleep of the retry decorator ends: the next attempt.
SleepReturns(i) ==
    /\ executor[i].pc = "sleep"
    /\ executor' = Update(i, attempt_node([executor[i] EXCEPT !.attempt = @ + 1, !.call = NoCall]))
    /\ UNCHANGED <<TOOL_REGISTRY, ALLOWED_TOOL_TYPES, user_data, dispatch, called, managers>>

Next ==
    \E i \in ExecutorIds :
        \/ Run(i)
        \/ LlmReturns(i)
        \/ ToolReturns(i)
        \/ InsertReturns(i)
        \/ SleepReturns(i)

Spec == Init /\ [][Next]_vars

(***************************************************************************)
(* An executor used again: run() is awaited on an executor whose earlier   *)
(* run() has returned or raised.  No caller in the repository does this;   *)
(* the class allows it.                                                    *)
(***************************************************************************)
\* The nodes of the workflows that are run again: one of each kind of
\* suspension point, and one that fails on a context without greeting.
RerunNodes ==
    { [WorkflowNode(<<"0">>, "send_response") EXCEPT !.message = <<"hi">>],
      [WorkflowNode(<<"0">>, "send_response") EXCEPT !.message = <<"$", "greeting">>],
      [WorkflowNode(<<"0">>, "llm_prompt") EXCEPT
          !.prompt = <<"Tell", " ", "me">>, !.output_variable = <<"answer">>],
      [WorkflowNode(<<"0">>, "tool_call") EXCEPT
          !.toolId = <<"search">>, !.output_variable = <<"found">>],
      [WorkflowNode(<<"0">>, "data_store") EXCEPT !.action = <<"append">>, !.data = <<"$", "note">>] }

RerunAgents == {AgentModel(nodes) : nodes \in ListsOf(RerunNodes, 1) \cup ListsOf(RerunNodes, 2)}

InitRerun ==
    /\ executor \in [ExecutorIds -> {NewExecutor(a) : a \in RerunAgents}]
    /\ TOOL_REGISTRY = [t \in {"API", "RSS", "DATABASE", "TELEGRAM", "SCHEDULING", "EMAIL"} |->
                           CASE t = "API" -> "execute_api_tool"
                             [] t = "RSS" -> "execute_rss_tool"
                             [] t = "DATABASE" -> "execute_database_tool"
                             [] t = "TELEGRAM" -> "execute_telegram_tool"
                             [] t = "SCHEDULING" -> "execute_scheduling_tool"
                             [] t = "EMAIL" -> "execute_email_tool"]
    /\ ALLOWED_TOOL_TYPES = {"API", "RSS", "DATABASE", "TELEGRAM"}
    /\ user_data = <<>>
    /\ sessions_collection = <<>>
    /\ telegram_auth = <<>>
    /\ smart_conversations = <<>>
    /\ tasks = <<>>
    /\ utcnow = 0
    /\ dispatch = NoDispatch
    /\ called = NothingCalled

\* A caller awaits run() of executor i again, after its run() returned or raised.
Rerun(i) ==
    /\ executor[i].pc \in {"returned", "raised"}
    /\ executor[i].runs < MaxRuns
    /\ \E workflow_id \in WorkflowIds, initial_context \in InitialContexts :
           executor' = Update(i, run(executor[i], workflow_id, initial_context))
    /\ UNCHANGED <<TOOL_REGISTRY, ALLOWED_TOOL_TYPES, user_data, dispatch, called, managers>>

NextRerun ==
    \E i \in ExecutorIds :
        \/ Run(i)
        \/ Rerun(i)
        \/ LlmReturns(i)
        \/ ToolReturns(i)
        \/ InsertReturns(i)
        \/ SleepReturns(i)

SpecRerun == InitRerun /\ [][NextRerun]_vars

(***************************************************************************)
(* Two executors, each constructed for its own run, whose runs are         *)
(* interleaved at their suspension points.  They share the tool registry,  *)
(* the allow-list and the user-data collection.                            *)
(***************************************************************************)
PairIds == {1, 2}

\* The workflows of the interleaved runs: between them every kind of
\* suspension point and a write to every kind of context key.
PairNodeLists ==
    LET llm == [WorkflowNode(<<"0">>, "llm_prompt") EXCEPT
                   !.prompt = <<"Tell", " ", "me">>, !.output_variable = <<"answer">>]
        tool == [WorkflowNode(<<"0">>, "tool_call") EXCEPT
                    !.toolId = <<"search">>, !.output_variable = <<"found">>]
        store == [WorkflowNode(<<"0">>, "data_store") EXCEPT
                     !.action = <<"append">>, !.data = <<"$", "note">>]
        send == [WorkflowNode(<<"0">>, "send_response") EXCEPT !.message = <<"$", "topic">>]
    IN  { <<WithId(llm, IdAt(1)), WithId(store, IdAt(2))>>,
          <<WithId(tool, IdAt(1)), WithId(send, IdAt(2))>>,
          <<WithId(store, IdAt(1)), WithId(llm, IdAt(2))>> }

PairAgents == {AgentModel(nodes) : nodes \in PairNodeLists}

InitPair ==
    /\ executor \in [PairIds -> {NewExecutor(a) : a \in PairAgents}]
    /\ TOOL_REGISTRY = [t \in {"API", "RSS", "DATABASE", "TELEGRAM", "SCHEDULING", "EMAIL"} |->
                           CASE t = "API" -> "execute_api_tool"
                             [] t = "RSS" -> "execute_rss_tool"
                             [] t = "DATABASE" -> "execute_database_tool"
                             [] t = "TELEGRAM" -> "execute_telegram_tool"
                             [] t = "SCHEDULING" -> "execute_scheduling_tool"
                             [] t = "EMAIL" -> "execute_email_tool"]
    /\ ALLOWED_TOOL_TYPES = {"API", "RSS", "DATABASE", "TELEGRAM"}
    /\ user_data = <<>>
    /\ sessions_collection = <<>>
    /\ telegram_auth = <<>>
    /\ smart_conversations = <<>>
    /\ tasks = <<>>
    /\ utcnow = 0
    /\ dispatch = NoDispatch
    /\ called = NothingCalled

NextPair ==
    \E i \in PairIds :
        \/ Run(i)
        \/ LlmReturns(i)
        \/ ToolReturns(i)
        \/ InsertReturns(i)
        \/ SleepReturns(i)

SpecPair == InitPair /\ [][NextPair]_vars

(***************************************************************************)
(* The dispatcher called directly, as its tests call it: execute_tool on   *)
(* any tool, with any parameters, in the initial state of the module.      *)
(***************************************************************************)
\* The tool types a caller asks for: the six that have an executor, and two
\* that have none.
DispatchTypes == {"API", "RSS", "DATABASE", "TELEGRAM", "EMAIL", "SCHEDULING", "SHELL", "UNSUPPORTED"}

\* toolId values: well formed, empty, with characters outside
\* [a-zA-Z0-9_-] in the middle, and with a newline at the end.
DispatchToolIds ==
    {<<"test", "_", "api">>, <<>>, <<"test", "<", "script", ">">>, <<"test", "_", "api", "\n">>}

DispatchNames == {<<"Test">>, <<>>}

DispatchTools ==
    {Tool(id, type, name) : id \in DispatchToolIds, type \in DispatchTypes, name \in DispatchNames}

DispatchParams ==
    { NoneParams,
      <<>>,
      <<"q">> :> Str(<<"cats">>),
      (<<"q">> :> Str(<<"<", "script", ">">>)) @@ (<<"bad", " ", "key">> :> [num |-> 5]) }

InitDispatcher ==
    /\ executor = [i \in ExecutorIds |-> NewExecutor(AgentModel(<<>>))]
    /\ TOOL_REGISTRY = [t \in {"API", "RSS", "DATABASE", "TELEGRAM", "SCHEDULING", "EMAIL"} |->
                           CASE t = "API" -> "execute_api_tool"
                             [] t = "RSS" -> "execute_rss_tool"
                             [] t = "DATABASE" -> "execute_database_tool"
                             [] t = "TELEGRAM" -> "execute_telegram_tool"
                             [] t = "SCHEDULING" -> "execute_scheduling_tool"
                             [] t = "EMAIL" -> "execute_email_tool"]
    /\ ALLOWED_TOOL_TYPES = {"API", "RSS", "DATABASE", "TELEGRAM"}
    /\ user_data = <<>>
    /\ sessions_collection = <<>>
    /\ telegram_auth = <<>>
    /\ smart_conversations = <<>>
    /\ tasks = <<>>
    /\ utcnow = 0
    /\ dispatch = NoDispatch
    /\ called = NothingCalled

\* A caller awaits execute_tool(tool, params).
ExecuteTool ==
    /\ dispatch.pc # "executor"
    /\ \E tool \in DispatchTools, params \in DispatchParams :
           dispatch' = execute_tool(tool, params)
    /\ UNCHANGED <<executor, TOOL_REGISTRY, ALLOWED_TOOL_TYPES, user_data, called, managers>>

\* The executor awaited by execute_tool returns, raises or times out.
ExecutorReturns ==
    /\ dispatch.pc = "executor"
    /\ \E outcome \in ExecutorOutcomes \cup ReturnOutcomes :
           dispatch' = execute_tool_returned(dispatch, outcome)
    /\ UNCHANGED <<executor, TOOL_REGISTRY, ALLOWED_TOOL_TYPES, user_data, called, managers>>

NextDispatcher == ExecuteTool \/ ExecutorReturns

SpecDispatcher == InitDispatcher /\ [][NextDispatcher]_vars

(***************************************************************************)
(* The registry: add_tool_type, remove_tool_type and execute_tool called   *)
(* in any order from the initial state of the module.                      *)
(***************************************************************************)
AddNames == {"API", "EMAIL", "HOOK_2", "HOOK\n", "shell", "MY-TOOL", "2FA", ""}

RemoveNames == {"API", "EMAIL", "HOOK_2", "HOOK\n", "SHELL"}

ExecutorFuncs == {"my_tool"}

RegistryTools ==
    {Tool(<<"test", "_", "api">>, type, <<"Test">>) : type \in RemoveNames}

\* A caller calls add_tool_type(tool_type, executor_func).
AddToolType ==
    /\ \E tool_type \in AddNames, executor_func \in ExecutorFuncs :
           LET r == add_tool_type(tool_type, executor_func)
           IN  /\ TOOL_REGISTRY' = r.globals.TOOL_REGISTRY
               /\ ALLOWED_TOOL_TYPES' = r.globals.ALLOWED_TOOL_TYPES
               /\ called' = [NothingCalled EXCEPT
                                !.fn = "add_tool_type",
                                !.args = <<tool_type, executor_func>>,
                                !.pc = IF r.raised # "" THEN "raised" ELSE "returned",
                                !.raised = r.raised,
                                !.before = Globals]
    /\ UNCHANGED <<executor, user_data, dispatch, managers>>

\* A caller calls remove_tool_type(tool_type).
RemoveToolType ==
    /\ \E tool_type \in RemoveNames :
           LET r == remove_tool_type(tool_type)
           IN  /\ TOOL_REGISTRY' = r.globals.TOOL_REGISTRY
               /\ ALLOWED_TOOL_TYPES' = r.globals.ALLOWED_TOOL_TYPES
               /\ called' = [NothingCalled EXCEPT
                                !.fn = "remove_tool_type",
                                !.args = <<tool_type>>,
                                !.pc = IF r.raised # "" THEN "raised" ELSE "returned",
                                !.raised = r.raised,
                                !.before = Globals]
    /\ UNCHANGED <<executor, user_data, dispatch, managers>>

\* A caller awaits execute_tool on a tool of one of the types.
ExecuteRegistryTool ==
    /\ dispatch.pc # "executor"
    /\ \E tool \in RegistryTools : dispatch' = execute_tool(tool, <<>>)
    /\ UNCHANGED <<executor, TOOL_REGISTRY, ALLOWED_TOOL_TYPES, user_data, called, managers>>

NextRegistry == AddToolType \/ RemoveToolType \/ ExecuteRegistryTool \/ ExecutorReturns

SpecRegistry == InitDispatcher /\ [][NextRegistry]_vars

(***************************************************************************)
(* The dispatcher when the allow-list has been extended ahead of the       *)
(* registry: ALLOWED_TOOL_TYPES is a module-level set that importers can   *)
(* add to, and nothing ties it to TOOL_REGISTRY, which the module itself   *)
(* fills by plain assignment.                                              *)
(***************************************************************************)
RolloutTypes == {"EMAIL", "SHELL", "UNSUPPORTED"}

InitRollout ==
    /\ executor = [i \in ExecutorIds |-> NewExecutor(AgentModel(<<>>))]
    /\ TOOL_REGISTRY = [t \in {"API", "RSS", "DATABASE", "TELEGRAM", "SCHEDULING", "EMAIL"} |->
                           CASE t = "API" -> "execute_api_tool"
                             [] t = "RSS" -> "execute_rss_tool"
                             [] t = "DATABASE" -> "execute_database_tool"
                             [] t = "TELEGRAM" -> "execute_telegram_tool"
                             [] t = "SCHEDULING" -> "execute_scheduling_tool"
                             [] t = "EMAIL" -> "execute_email_tool"]
    /\ \E added \in SUBSET RolloutTypes :
           ALLOWED_TOOL_TYPES = {"API", "RSS", "DATABASE", "TELEGRAM"} \cup added
    /\ user_data = <<>>
    /\ sessions_collection = <<>>
    /\ telegram_auth = <<>>
    /\ smart_conversations = <<>>
    /\ tasks = <<>>
    /\ utcnow = 0
    /\ dispatch = NoDispatch
    /\ called = NothingCalled

NextRollout == ExecuteTool \/ ExecutorReturns

SpecRollout == InitRollout /\ [][NextRollout]_vars

(***************************************************************************)
(* validate_url applied to URLs put together from a prefix, a host and a   *)
(* tail.                                                                   *)
(***************************************************************************)
UrlPrefixes ==
    { <<"h", "t", "t", "p", ":", "/", "/">>,
      <<"h", "t", "t", "p", "s", ":", "/", "/">>,
      <<"H", "T", "T", "P", ":", "/", "/">>,
      <<"f", "t", "p", ":", "/", "/">>,
      <<"f", "i", "l", "e", ":", "/", "/">>,
      <<"/", "/">>,
      <<"h", "t", "t", "p", ":">> }

UrlHosts ==
    { <<"a", "p", "i", ".", "e", "x", "a", "m", "p", "l", "e", ".", "c", "o", "m">>,
      <<"x", ".", "c", "o", "m">>,
      <<"l", "o", "c", "a", "l", "h", "o", "s", "t">>,
      <<"L", "O", "C", "A", "L", "H", "O", "S", "T">>,
      <<"1", "2", "7", ".", "0", ".", "0", ".", "1", ":", "8", "0", "0", "0">>,
      <<"0", ".", "0", ".", "0", ".", "0">>,
      <<"[", ":", ":", "1">>,
      <<"[", ":", ":", "1", "]">>,
      <<"[", "x", "]">>,
      <<>> }

UrlTails ==
    { <<>>,
      <<"/", "v", "1", "/", "d", "a", "t", "a">>,
      <<"/", "x">>,
      <<"/", "<", "s", "c", "r", "i", "p", "t", ">">>,
      <<"/", "e", "t", "c", "/", "p", "a", "s", "s", "w", "d">>,
      <<"/", "d", "o", "c", "s", "/", "l", "o", "c", "a", "l", "h", "o", "s", "t">>,
      <<"?", "n", "e", "x", "t", "=", "f", "i", "l", "e", ":", "/", "/", "x">>,
      <<"/", "a", ";", "b">>,
      <<"/", "a", "'", "b">>,
      <<"/", "a", "\"", "b">>,
      <<"/", "a", "\\", "b">>,
      <<"?", "h", "=", "L", "o", "c", "a", "l", "H", "o", "s", "t">>,
      <<"/", "a", "[", "0">> }

Urls ==
    {prefix \o host \o tail : prefix \in UrlPrefixes, host \in UrlHosts, tail \in UrlTails}
        \cup { <<"n", "o", "t", "-", "a", "-", "u", "r", "l">>, <<>> }

InitUrl ==
    /\ executor = [i \in ExecutorIds |-> NewExecutor(AgentModel(<<>>))]
    /\ TOOL_REGISTRY = [t \in {"API", "RSS", "DATABASE", "TELEGRAM", "SCHEDULING", "EMAIL"} |->
                           CASE t = "API" -> "execute_api_tool"
                             [] t = "RSS" -> "execute_rss_tool"
                             [] t = "DATABASE" -> "execute_database_tool"
                             [] t = "TELEGRAM" -> "execute_telegram_tool"
                             [] t = "SCHEDULING" -> "execute_scheduling_tool"
                             [] t = "EMAIL" -> "execute_email_tool"]
    /\ ALLOWED_TOOL_TYPES = {"API", "RSS", "DATABASE", "TELEGRAM"}
    /\ user_data = <<>>
    /\ sessions_collection = <<>>
    /\ telegram_auth = <<>>
    /\ smart_conversations = <<>>
    /\ tasks = <<>>
    /\ utcnow = 0
    /\ dispatch = NoDispatch
    /\ \E url \in Urls :
           called = [NothingCalled EXCEPT !.fn = "validate_url", !.args = <<url>>]

\* A caller calls validate_url(url).
ValidateUrl ==
    /\ called.fn = "validate_url" /\ called.pc = "idle"
    /\ called' = [called EXCEPT !.pc = "returned", !.value = validate_url(called.args[1])]
    /\ UNCHANGED <<executor, TOOL_REGISTRY, ALLOWED_TOOL_TYPES, user_data, dispatch, managers>>

NextUrl == ValidateUrl

SpecUrl == InitUrl /\ [][NextUrl]_vars

(***************************************************************************)
(* validate_and_sanitize_input applied to parameter maps of one or two     *)
(* entries, and applied again to what it returned.                         *)
(***************************************************************************)
ParamKeys ==
    { <<"query">>,
      <<"limit", "_", "2">>,
      <<"bad", " ", "key">>,
      <<"query", "<", "script", ">">>,
      <<"q", "\n">>,
      <<>>,
      <<NotStr, "123">> }

ParamValues ==
    { Str(<<"t", "e", "s", "t", " ", "q", "u", "e", "r", "y">>),
      Str(<<"t", "e", "s", "t", "<", "s", "c", "r", "i", "p", "t", ">", "a", "l", "e", "r", "t", "(", "'", "x", "s", "s", "'", ")", "<", "/", "s", "c", "r", "i", "p", "t", ">">>),
      Str(<<"a", "\"", "b", ";", "c", "\\", "d">>),
      Str(<<>>),
      Str(Repeat("a", 1000)),
      Str(Repeat("a", 1001)),
      Str(Repeat("a", 1500)),
      Str(<<"<">> \o Repeat("a", 1000)),
      Str(Repeat("a", 999) \o <<"<", "b", ">", "c">>),
      [num |-> 10],
      [bool |-> TRUE],
      [list |-> <<>>],
      [list |-> <<Str(<<"<", "b", ">">>), [num |-> 1], [none |-> TRUE]>>],
      Dict(<<"d", "a", "t", "a">> :> Str(Repeat("x", 4988))),
      Dict(<<"d", "a", "t", "a">> :> Str(Repeat("x", 4989))),
      Dict(<<"d", "a", "t", "a">> :> Str(Repeat("x", 6000))),
      Dict((<<"a">> :> Str(<<"x", "\"", "y">>)) @@ (<<"b", "2">> :> [list |-> <<[bool |-> FALSE], [num |-> 250]>>])),
      [list |-> <<[other |-> "function"]>>],
      [none |-> TRUE],
      [other |-> "function"] }

SecondValues ==
    { Str(<<"t", "e", "s", "t", " ", "q", "u", "e", "r", "y">>),
      Str(<<"t", "e", "s", "t", "<", "s", "c", "r", "i", "p", "t", ">", "a", "l", "e", "r", "t", "(", "'", "x", "s", "s", "'", ")", "<", "/", "s", "c", "r", "i", "p", "t", ">">>),
      [num |-> 10],
      Dict(<<"d", "a", "t", "a">> :> Str(Repeat("x", 6000))),
      [none |-> TRUE] }

ParamMaps ==
    {<<>>}
        \cup {key :> value : key \in ParamKeys, value \in ParamValues}
        \cup {(<<"query">> :> value) @@ (<<"extra">> :> second) :
                  value \in ParamValues, second \in SecondValues}

InitSanitizer ==
    /\ executor = [i \in ExecutorIds |-> NewExecutor(AgentModel(<<>>))]
    /\ TOOL_REGISTRY = [t \in {"API", "RSS", "DATABASE", "TELEGRAM", "SCHEDULING", "EMAIL"} |->
                           CASE t = "API" -> "execute_api_tool"
                             [] t = "RSS" -> "execute_rss_tool"
                             [] t = "DATABASE" -> "execute_database_tool"
                             [] t = "TELEGRAM" -> "execute_telegram_tool"
                             [] t = "SCHEDULING" -> "execute_scheduling_tool"
                             [] t = "EMAIL" -> "execute_email_tool"]
    /\ ALLOWED_TOOL_TYPES = {"API", "RSS", "DATABASE", "TELEGRAM"}
    /\ user_data = <<>>
    /\ sessions_collection = <<>>
    /\ telegram_auth = <<>>
    /\ smart_conversations = <<>>
    /\ tasks = <<>>
    /\ utcnow = 0
    /\ dispatch = NoDispatch
    /\ \/ \E params \in ParamMaps :
              called = [NothingCalled EXCEPT !.fn = "validate_and_sanitize_input",
                                             !.args = <<params>>]
       \/ called = [NothingCalled EXCEPT !.fn = "validate_and_sanitize_input",
                                         !.args = <<NoneParams>>]

\* A caller calls validate_and_sanitize_input(params, tool).
ValidateAndSanitizeInput ==
    /\ called.fn = "validate_and_sanitize_input" /\ called.pc = "idle"
    /\ LET r == validate_and_sanitize_input(called.args[1])
       IN  called' = [called EXCEPT !.pc = IF r.raised # "" THEN "raised" ELSE "returned",
                                    !.raised = r.raised,
                                    !.value = r.value]
    /\ UNCHANGED <<executor, TOOL_REGISTRY, ALLOWED_TOOL_TYPES, user_data, dispatch, managers>>

\* The caller passes the map it got to validate_and_sanitize_input again;
\* before keeps the first call.
SanitizeAgain ==
    /\ called.fn = "validate_and_sanitize_input" /\ called.pc = "returned"
    /\ called.before = <<>>
    /\ LET r == validate_and_sanitize_input(called.value)
       IN  called' = [called EXCEPT !.args = <<called.value>>,
                                    !.pc = IF r.raised # "" THEN "raised" ELSE "returned",
                                    !.raised = r.raised,
                                    !.value = r.value,
                                    !.before = <<called>>]
    /\ UNCHANGED <<executor, TOOL_REGISTRY, ALLOWED_TOOL_TYPES, user_data, dispatch, managers>>

NextSanitizer == ValidateAndSanitizeInput \/ SanitizeAgain

SpecSanitizer == InitSanitizer /\ [][NextSanitizer]_vars

(***************************************************************************)
(* execute_api_tool and execute_rss_tool called on tools with and without  *)
(* an endpoint, a url and a key.                                           *)
(***************************************************************************)
Endpoints ==
    { None, <<>>,
      <<"h", "t", "t", "p", "s", ":", "/", "/", "a", "p", "i", ".", "e", "x", "a", "m", "p", "l", "e", ".", "c", "o", "m", "/", "v", "1", "/", "d", "a", "t", "a">>,
      <<"h", "t", "t", "p", ":", "/", "/", "l", "o", "c", "a", "l", "h", "o", "s", "t", "/", "a", "p", "i">>,
      <<"f", "i", "l", "e", ":", "/", "/", "/", "e", "t", "c", "/", "p", "a", "s", "s", "w", "d">>,
      <<"h", "t", "t", "p", ":", "/", "/", "x", ".", "c", "o", "m", "/", "<", "s", "c", "r", "i", "p", "t", ">">> }

FeedUrls ==
    { None,
      <<"h", "t", "t", "p", "s", ":", "/", "/", "n", "e", "w", "s", ".", "e", "x", "a", "m", "p", "l", "e", ".", "c", "o", "m", "/", "r", "s", "s">>,
      <<"h", "t", "t", "p", "s", ":", "/", "/", "1", "2", "7", ".", "0", ".", "0", ".", "1", "/", "r", "s", "s">> }

Auths ==
    { NoAuth,
      ToolAuth("apiKey", <<"t", "e", "s", "t", "_", "k", "e", "y", "_", "1", "2", "3", "4", "5", "6">>),
      ToolAuth("apiKey", <<"s", "h", "o", "r", "t">>) }

ExecutorTools ==
    {[Tool(<<"test">>, "API", <<"Test">>) EXCEPT !.endpoint = endpoint, !.url = url, !.auth = auth] :
        endpoint \in Endpoints, url \in FeedUrls, auth \in Auths}

ExecutorParams ==
    { <<>>,
      <<"query">> :> Str(<<"t", "e", "s", "t", "<", "s", "c", "r", "i", "p", "t", ">">>),
      <<"bad", " ", "key">> :> [num |-> 1],
      <<"limit">> :> [num |-> 1],
      <<"limit">> :> Str(<<"1", "0">>) }

InitExecutors ==
    /\ executor = [i \in ExecutorIds |-> NewExecutor(AgentModel(<<>>))]
    /\ TOOL_REGISTRY = [t \in {"API", "RSS", "DATABASE", "TELEGRAM", "SCHEDULING", "EMAIL"} |->
                           CASE t = "API" -> "execute_api_tool"
                             [] t = "RSS" -> "execute_rss_tool"
                             [] t = "DATABASE" -> "execute_database_tool"
                             [] t = "TELEGRAM" -> "execute_telegram_tool"
                             [] t = "SCHEDULING" -> "execute_scheduling_tool"
                             [] t = "EMAIL" -> "execute_email_tool"]
    /\ ALLOWED_TOOL_TYPES = {"API", "RSS", "DATABASE", "TELEGRAM"}
    /\ user_data = <<>>
    /\ sessions_collection = <<>>
    /\ telegram_auth = <<>>
    /\ smart_conversations = <<>>
    /\ tasks = <<>>
    /\ utcnow = 0
    /\ dispatch = NoDispatch
    /\ \E fn \in {"execute_api_tool", "execute_rss_tool"},
          tool \in ExecutorTools, params \in ExecutorParams :
           called = [NothingCalled EXCEPT !.fn = fn, !.args = <<tool, params>>]

\* The call after the executor has run to its request or to a raise.
Ran(call, r) ==
    [call EXCEPT !.pc = r.pc, !.raised = r.raised, !.calls = r.calls,
                 !.requests = r.requests, !.value = r.value]

\* A caller awaits execute_api_tool(tool, params).
ExecuteApiTool ==
    /\ called.fn = "execute_api_tool" /\ called.pc = "idle"
    /\ called' = Ran(called, execute_api_tool(called.args[1], called.args[2]))
    /\ UNCHANGED <<executor, TOOL_REGISTRY, ALLOWED_TOOL_TYPES, user_data, dispatch, managers>>

\* A caller awaits execute_rss_tool(tool, params).
ExecuteRssTool ==
    /\ called.fn = "execute_rss_tool" /\ called.pc = "idle"
    /\ called' = Ran(called, execute_rss_tool(called.args[1], called.args[2]))
    /\ UNCHANGED <<executor, TOOL_REGISTRY, ALLOWED_TOOL_TYPES, user_data, dispatch, managers>>

\* The HTTP request of the executor returns or raises.
HttpResponds ==
    /\ called.pc = "request"
    /\ \E outcome \in HttpOutcomes :
           called' = IF called.fn = "execute_api_tool"
                     THEN api_responded(called, outcome)
                     ELSE rss_responded(called, called.args[2], outcome)
    /\ UNCHANGED <<executor, TOOL_REGISTRY, ALLOWED_TOOL_TYPES, user_data, dispatch, managers>>

NextExecutors == ExecuteApiTool \/ ExecuteRssTool \/ HttpResponds

SpecExecutors == InitExecutors /\ [][NextExecutors]_vars

(***************************************************************************)
(* A run whose collaborators answer: every awaited call (the provider's    *)
(* API, the tool's executor, insert_one) returns or raises, and the event  *)
(* loop ends every backoff sleep.  The caller need not call run() at all.  *)
(***************************************************************************)
\* The policies of a failing node: abort, continue, stop.
AnsweredPolicies ==
    { [on_failure |-> None, continue_on_error |-> FALSE],
      [on_failure |-> None, continue_on_error |-> TRUE],
      [on_failure |-> <<"stop">>, continue_on_error |-> TRUE] }

\* The first node of the workflow: a node of every type, those that wait
\* for a collaborator and those that fail before any is called.
FirstNodes ==
    {[n EXCEPT !.on_failure = p.on_failure, !.continue_on_error = p.continue_on_error] :
        n \in { [WorkflowNode(IdAt(1), "llm_prompt") EXCEPT
                    !.prompt = <<"About", " ", "{", "topic", "}">>, !.output_variable = <<"answer">>],
                [WorkflowNode(IdAt(1), "tool_call") EXCEPT
                    !.toolId = <<"search">>, !.output_variable = <<"found">>],
                [WorkflowNode(IdAt(1), "tool_call") EXCEPT !.toolId = <<"mailer">>],
                [WorkflowNode(IdAt(1), "data_store") EXCEPT
                    !.action = <<"append">>, !.data = <<"$", "note">>],
                [WorkflowNode(IdAt(1), "send_response") EXCEPT !.message = <<"$", "topic">>],
                [WorkflowNode(IdAt(1), "conditional_logic") EXCEPT
                    !.condition = <<"x", " ", ">", " ", "1">>],
                WorkflowNode(IdAt(1), "loop") },
        p \in AnsweredPolicies}

\* The node after it in the execution order, which waits for insert_one.
SecondNode ==
    [WorkflowNode(IdAt(3), "data_store") EXCEPT !.action = <<"append">>, !.data = <<"$", "note">>]

\* The nodes are declared out of their execution order.
AnsweredNodeLists == {<<SecondNode, v>> : v \in FirstNodes}

AnsweredAgents == {AgentModel(nodes) : nodes \in AnsweredNodeLists}

InitAnswered ==
    /\ executor \in [ExecutorIds -> {NewExecutor(a) : a \in AnsweredAgents}]
    /\ TOOL_REGISTRY = [t \in {"API", "RSS", "DATABASE", "TELEGRAM", "SCHEDULING", "EMAIL"} |->
                           CASE t = "API" -> "execute_api_tool"
                             [] t = "RSS" -> "execute_rss_tool"
                             [] t = "DATABASE" -> "execute_database_tool"
                             [] t = "TELEGRAM" -> "execute_telegram_tool"
                             [] t = "SCHEDULING" -> "execute_scheduling_tool"
                             [] t = "EMAIL" -> "execute_email_tool"]
    /\ ALLOWED_TOOL_TYPES = {"API", "RSS", "DATABASE", "TELEGRAM"}
    /\ user_data = <<>>
    /\ sessions_collection = <<>>
    /\ telegram_auth = <<>>
    /\ smart_conversations = <<>>
    /\ tasks = <<>>
    /\ utcnow = 0
    /\ dispatch = NoDispatch
    /\ called = NothingCalled

\* What the run of executor i waits for ends.
Answered(i) ==
    LlmReturns(i) \/ ToolReturns(i) \/ InsertReturns(i) \/ SleepReturns(i)

SpecAnswered ==
    /\ InitAnswered
    /\ [][Next]_vars
    /\ \A i \in ExecutorIds : WF_vars(Answered(i))

(***************************************************************************)
(* What the properties speak of.                                           *)
(***************************************************************************)
\* The workflow run() was asked for, when the agent has it.
WorkflowFound(e) ==
    \E i \in 1..Len(e.agent_config.workflows) :
        e.agent_config.workflows[i].workflowId = e.workflow_id

DeclaredNodes(e) ==
    LET workflows == e.agent_config.workflows
    IN  workflows[CHOOSE i \in 1..Len(workflows) :
                      workflows[i].workflowId = e.workflow_id].nodes

\* The places in sorted_nodes of the nodes whose step failed in this run,
\* and of those whose step was logged as a success.
FailedAt(e) ==
    {e.logged[j] : j \in {j \in 1..Len(e.execution_log) :
                            e.logged[j] > 0 /\ e.execution_log[j].status = "failed"}}

SucceededAt(e) ==
    {e.logged[j] : j \in {j \in 1..Len(e.execution_log) :
                            e.logged[j] > 0 /\ e.execution_log[j].status = "success"}}

\* The entries of a history sequence that are about the node at place k.
About(h, k) == SelectSeq(h, LAMBDA x : x.idx = k)

Count(h, k) == Len(SelectSeq(h, LAMBDA x : x = k))

UpTo(k) == [j \in 1..k |-> j]

NoOnFailure(node) == ~Truthy(node.on_failure)

\* The node at place k is a data_store node for which insert_one was called
\* with the document of a context variable.
InsertedFromContext(e, k) ==
    /\ StartsWith(e.sorted_nodes[k].data, "$")
    /\ \E j \in 1..Len(e.invoked) : e.invoked[j] = [kind |-> "insert_one", idx |-> k]

\* The context the node the run is at was handed, with the '_id' that
\* insert_one has put in the node's document if the node has called it.
NodeContextInserted(e, k) ==
    IF InsertedFromContext(e, k)
    THEN insert_one_called([e EXCEPT !.context = e.node_context],
                           StripChar(e.sorted_nodes[k].data, "$")).context
    ELSE e.node_context

\* The run did nothing for a node after place k: no node after k was handed
\* to execute_node, attempted, logged, slept for or passed to a collaborator,
\* the last log entry is the one of node k and the context is as it was
\* when node k was handed to execute_node (but for insert_one's '_id').
NothingAfter(e, k) ==
    /\ e.executed = UpTo(k)
    /\ \A j \in 1..Len(e.attempted) : e.attempted[j] <= k
    /\ \A j \in 1..Len(e.invoked) : e.invoked[j].idx <= k
    /\ \A j \in 1..Len(e.slept) : e.slept[j].idx <= k
    /\ \A j \in 1..Len(e.logged) : e.logged[j] <= k
    /\ e.logged # <<>> /\ e.logged[Len(e.logged)] = k
    /\ e.context = NodeContextInserted(e, k)

\* The run went on after the failed node at place k: the next node, if there
\* is one, was handed to execute_node, and if the run has ended at k it returned.
WentOnAfter(e, k) ==
    /\ k < Len(e.sorted_nodes) => Len(e.executed) > k /\ e.executed[k + 1] = k + 1
    /\ k = Len(e.sorted_nodes) => e.pc = "returned" /\ e.raised = ""
    /\ e.pc = "raised" => Len(e.executed) > k

\* The failure of the node at place k is in failed_steps and the node has no
\* 'success' entry in the log.
RecordedFailed(e, k) ==
    /\ \E j \in 1..Len(e.failed_steps) :
           /\ e.failed_steps[j].node_id = e.sorted_nodes[k].nodeId
           /\ e.failed_steps[j].status = "failed"
           /\ e.failed_steps[j].step_type = e.sorted_nodes[k].type
    /\ k \notin SucceededAt(e)

(***************************************************************************)
(* C1: a step with no on_failure and continue_on_error = false that fails  *)
(* makes run() raise WorkflowExecutionError, and nothing is done for any   *)
(* node later in the execution order: no execute_node, no attempt, no      *)
(* collaborator call, no sleep, no log entry, no context write.            *)
(***************************************************************************)
C1_FailureAborts ==
    \A i \in ExecutorIds :
        LET e == executor[i]
        IN  \A k \in FailedAt(e) :
                NoOnFailure(e.sorted_nodes[k]) /\ ~e.sorted_nodes[k].continue_on_error
                    => /\ e.pc = "raised"
                       /\ e.raised = "WorkflowExecutionError"
                       /\ NothingAfter(e, k)

\* An aborting step has failed and is not the last node of its workflow.
C1_Witness ==
    \E i \in ExecutorIds :
        LET e == executor[i]
        IN  \E k \in FailedAt(e) :
                /\ NoOnFailure(e.sorted_nodes[k]) /\ ~e.sorted_nodes[k].continue_on_error
                /\ 1 < k /\ k < Len(e.sorted_nodes)
                /\ e.sorted_nodes[k + 1].type = "llm_prompt"

(***************************************************************************)
(* C2: a step with continue_on_error = true and no on_failure that fails   *)
(* does not end the run: the next node is executed, run() returns when no  *)
(* other step ends it, the failure is in failed_steps and the step has no  *)
(* 'success' entry in the log.                                             *)
(***************************************************************************)
C2_FailureContinues ==
    \A i \in ExecutorIds :
        LET e == executor[i]
        IN  \A k \in FailedAt(e) :
                NoOnFailure(e.sorted_nodes[k]) /\ e.sorted_nodes[k].continue_on_error
                    => /\ WentOnAfter(e, k)
                       /\ RecordedFailed(e, k)
                       /\ e.pc \in {"returned", "raised"} /\ FailedAt(e) = {k}
                              => /\ e.pc = "returned"
                                 /\ e.executed = UpTo(Len(e.sorted_nodes))

\* A run has returned after a continue_on_error step, not the last, failed.
C2_Witness ==
    \E i \in ExecutorIds :
        LET e == executor[i]
        IN  \E k \in FailedAt(e) :
                /\ NoOnFailure(e.sorted_nodes[k]) /\ e.sorted_nodes[k].continue_on_error
                /\ k < Len(e.sorted_nodes)
                /\ e.pc = "returned"
                /\ k + 1 \in SucceededAt(e)

(***************************************************************************)
(* C3: a step with on_failure = 'stop' that fails makes run() return, not  *)
(* raise: the result is the context as it was at that step, with the       *)
(* execution summary every return adds, and nothing is done for any later  *)
(* node.                                                                   *)
(***************************************************************************)
\* The summary run() puts in the context it returns.
SummaryOf(e) ==
    [summary |-> [workflow_id |-> e.workflow_id,
                  total_steps |-> Len(e.sorted_nodes),
                  failed_steps |-> Len(e.failed_steps)]]

\* NothingAfter, for a run that returned: the summary is in the context.
NothingAfterReturned(e, k) ==
    /\ NothingAfter([e EXCEPT !.context = NodeContextInserted(e, k)], k)
    /\ e.context = (EXECUTION_SUMMARY :> SummaryOf(e)) @@ NodeContextInserted(e, k)
    /\ e.result = e.context

C3_StopReturns ==
    \A i \in ExecutorIds :
        LET e == executor[i]
        IN  \A k \in FailedAt(e) :
                e.sorted_nodes[k].on_failure = <<"stop">>
                    => /\ e.pc = "returned"
                       /\ e.raised = ""
                       /\ NothingAfterReturned(e, k)

\* A 'stop' step has failed after a step that wrote to the context and
\* before another node.
C3_Witness ==
    \E i \in ExecutorIds :
        LET e == executor[i]
        IN  \E k \in FailedAt(e) :
                /\ e.sorted_nodes[k].on_failure = <<"stop">>
                /\ 1 < k /\ k < Len(e.sorted_nodes)
                /\ DOMAIN e.node_context # DOMAIN e.start.context

(***************************************************************************)
(* C4: a step with on_failure = 'continue' that fails does not make run()  *)
(* raise, whatever its continue_on_error: the failure is recorded and the  *)
(* next node is executed.                                                  *)
(***************************************************************************)
C4_ContinueSwallows ==
    \A i \in ExecutorIds :
        LET e == executor[i]
        IN  \A k \in FailedAt(e) :
                e.sorted_nodes[k].on_failure = <<"continue">>
                    => /\ WentOnAfter(e, k)
                       /\ RecordedFailed(e, k)

\* An on_failure = 'continue' step with continue_on_error = false has failed
\* and the node after it has been executed.
C4_Witness ==
    \E i \in ExecutorIds :
        LET e == executor[i]
        IN  \E k \in FailedAt(e) :
                /\ e.sorted_nodes[k].on_failure = <<"continue">>
                /\ ~e.sorted_nodes[k].continue_on_error
                /\ k + 1 \in SucceededAt(e)

C6_NumericOrder ==
    \A i \in ExecutorIds :
        LET e == executor[i]
            s == e.sorted_nodes
            w == DeclaredNodes(e)
            n == Len(w)
        IN  e.pc # "idle" /\ WorkflowFound(e) /\ KeysParse(w)
                => /\ Len(s) = n
                   /\ \E f \in Permutations(1..n) : \A j \in 1..n : s[j] = w[f[j]]
                   /\ \A j \in 1..(n - 1) : IntValue(s[j].nodeId) <= IntValue(s[j + 1].nodeId)
                   /\ e.executed = UpTo(Len(e.executed))
                   /\ Len(e.executed) <= n
                   /\ \A j \in 1..Len(e.logged) :
                          /\ e.execution_log[j].node_id = s[e.logged[j]].nodeId
                          /\ j > 1 => e.logged[j - 1] <= e.logged[j]
                   /\ e.pc = "returned" /\ FailedAt(e) = {} => e.executed = UpTo(n)
                   /\ [j \in 1..n |-> w[j].nodeId] = <<<<"2">>, <<"1">>, <<"1", "0">>>>
                          => [j \in 1..n |-> s[j].nodeId] = <<<<"1">>, <<"2">>, <<"1", "0">>>>

\* A run of nodes declared as "2", "1", "10" has returned with the log
\* entries of "1", "2", "10" in this order.
C6_Witness ==
    \E i \in ExecutorIds :
        LET e == executor[i]
        IN  /\ e.pc = "returned"
            /\ WorkflowFound(e)
            /\ [j \in 1..Len(DeclaredNodes(e)) |-> DeclaredNodes(e)[j].nodeId]
                   = <<<<"2">>, <<"1">>, <<"1", "0">>>>
            /\ [j \in 1..Len(e.execution_log) |-> e.execution_log[j].node_id]
                   = <<<<"1">>, <<"2">>, <<"1", "0">>>>

(***************************************************************************)
(* C7: run() with a workflowId the agent has no workflow for raises        *)
(* WorkflowExecutionError and executes nothing: no node is handed to       *)
(* execute_node, no collaborator is called, execution_log and failed_steps *)
(* stay empty.                                                             *)
(***************************************************************************)
NothingExecuted(e) ==
    /\ e.sorted_nodes = <<>>
    /\ e.executed = <<>>
    /\ e.attempted = <<>>
    /\ e.invoked = <<>>
    /\ e.slept = <<>>
    /\ e.execution_log = <<>>
    /\ e.failed_steps = <<>>
    /\ e.context = e.start.context

C7_UnknownWorkflowRaises ==
    \A i \in ExecutorIds :
        LET e == executor[i]
        IN  e.pc # "idle" /\ ~WorkflowFound(e)
                => /\ e.pc = "raised"
                   /\ e.raised = "WorkflowExecutionError"
                   /\ NothingExecuted(e)

\* run() was called with an unknown workflowId on an agent whose workflow
\* has a node that calls a collaborator.
C7_Witness ==
    \E i \in ExecutorIds :
        LET e == executor[i]
            nodes == e.agent_config.workflows[1].nodes
        IN  /\ e.pc = "raised"
            /\ ~WorkflowFound(e)
            /\ \E j \in 1..Len(nodes) : nodes[j].type = "llm_prompt"

(***************************************************************************)
(* C8: when some nodeId of the workflow does not parse as an integer,      *)
(* run() raises WorkflowExecutionError before it executes any node, the    *)
(* nodes with a numeric nodeId included: no attempt, no sleep, no          *)
(* collaborator call, no log entry.                                        *)
(***************************************************************************)
C8_NonNumericNodeIdRaises ==
    \A i \in ExecutorIds :
        LET e == executor[i]
        IN  ( /\ e.pc # "idle"
              /\ WorkflowFound(e)
              /\ \E j \in 1..Len(DeclaredNodes(e)) : ~IntParses(DeclaredNodes(e)[j].nodeId) )
                => /\ e.pc = "raised"
                   /\ e.raised = "WorkflowExecutionError"
                   /\ NothingExecuted(e)

\* run() has raised for a workflow whose first declared node has a numeric
\* nodeId and whose last has not.
C8_Witness ==
    \E i \in ExecutorIds :
        LET e == executor[i]
            w == DeclaredNodes(e)
        IN  /\ e.pc = "raised"
            /\ WorkflowFound(e)
            /\ Len(w) > 1
            /\ IntParses(w[1].nodeId)
            /\ ~IntParses(w[Len(w)].nodeId)

(***************************************************************************)
(* C9, as claimed: a tool_call step that fails with ToolValidationError or *)
(* ToolSecurityError from the dispatcher was not retried: the dispatcher   *)
(* was invoked exactly once for the step and the engine did not sleep.     *)
(***************************************************************************)
\* The error type in the log entry of the failure of the node at place k.
FailureOf(e, k) ==
    e.execution_log[CHOOSE j \in 1..Len(e.execution_log) :
                        e.logged[j] = k /\ e.execution_log[j].status = "failed"].details.error_type

DispatcherCalls(e, k) ==
    Len(SelectSeq(e.invoked, LAMBDA x : x.idx = k /\ x.kind = "execute_tool"))

C9_ValidationAndSecurityNotRetried ==
    \A i \in ExecutorIds :
        LET e == executor[i]
        IN  \A k \in FailedAt(e) :
                /\ e.sorted_nodes[k].type = "tool_call"
                /\ FailureOf(e, k) \in {"ToolValidationError", "ToolSecurityError"}
                    => /\ DispatcherCalls(e, k) = 1
                       /\ About(e.slept, k) = <<>>

IsReference(v) == "str" \in DOMAIN v /\ v.str # <<>> /\ v.str[1] = "$"

ReferredName(v) == SelectSeq(v.str, LAMBDA c : c # "$")

C11_ParamsResolved ==
    \A i \in ExecutorIds :
        LET e == executor[i]
            given == e.sorted_nodes[e.idx].params
            sent == e.call.params
        IN  e.pc = "tool"
                => /\ DOMAIN sent \subseteq DOMAIN given
                   /\ \A k \in DOMAIN given :
                          IF ~IsReference(given[k]) THEN k \in DOMAIN sent /\ sent[k] = given[k]
                          ELSE IF ReferredName(given[k]) \in DOMAIN e.context
                          THEN k \in DOMAIN sent /\ sent[k] = e.context[ReferredName(given[k])]
                          ELSE k \notin DOMAIN sent
                   /\ e.invoked # <<>>
                   /\ e.invoked[Len(e.invoked)] = [kind |-> "executor", idx |-> e.idx]
                   /\ Len(e.invoked) > 1
                   /\ e.invoked[Len(e.invoked) - 1] = [kind |-> "execute_tool", idx |-> e.idx]

\* The executor of a tool is awaited with q resolved to "cats", m (a
\* reference to a variable the context lacks) left out, n and limit as written.
C11_Witness ==
    \E i \in ExecutorIds :
        LET e == executor[i]
        IN  /\ e.pc = "tool"
            /\ DOMAIN e.sorted_nodes[e.idx].params = {<<"q">>, <<"m">>, <<"n">>, <<"limit">>}
            /\ e.call.params = (<<"q">> :> Str(<<"cats">>)) @@ (<<"n">> :> Str(<<"5">>))
                                   @@ (<<"limit">> :> [num |-> 5])

(***************************************************************************)
(* C12: a tool_call step whose toolId is None or '' or is the toolId of no *)
(* tool of the agent never has the dispatcher or an executor invoked for   *)
(* it and does not succeed: once the engine has left the step, the step is *)
(* in the log as failed; with no on_failure and continue_on_error = false, *)
(* run() raises WorkflowExecutionError.                                    *)
(***************************************************************************)
\* The node names no tool of the agent.
NamesNoTool(e, node) ==
    \/ node.toolId \in {None, <<>>}
    \/ \A j \in 1..Len(e.agent_config.tools) : e.agent_config.tools[j].toolId # node.toolId

\* The engine has left the node at place k of the run.
StepEnded(e, k) ==
    k \in 1..Len(e.executed) /\ (e.idx > k \/ e.pc \in {"returned", "raised"})

C12_NoToolNoDispatch ==
    \A i \in ExecutorIds :
        LET e == executor[i]
        IN  \A k \in 1..Len(e.executed) :
                e.sorted_nodes[k].type = "tool_call" /\ NamesNoTool(e, e.sorted_nodes[k])
                    => /\ \A j \in 1..Len(e.invoked) : e.invoked[j].idx # k
                       /\ k \notin SucceededAt(e)
                       /\ StepEnded(e, k) => k \in FailedAt(e)
                       /\ ( /\ k \in FailedAt(e)
                             /\ NoOnFailure(e.sorted_nodes[k])
                             /\ ~e.sorted_nodes[k].continue_on_error )
                              => e.pc = "raised" /\ e.raised = "WorkflowExecutionError"

\* run() has raised at a step whose toolId is "missing_tool", under the
\* default policy, after an earlier step succeeded.
C12_Witness ==
    \E i \in ExecutorIds :
        LET e == executor[i]
        IN  \E k \in FailedAt(e) :
                /\ e.sorted_nodes[k].type = "tool_call"
                /\ e.sorted_nodes[k].toolId = <<"missing", "_", "tool">>
                /\ NoOnFailure(e.sorted_nodes[k]) /\ ~e.sorted_nodes[k].continue_on_error
                /\ e.pc = "raised"
                /\ k > 1

(***************************************************************************)
(* C13: an llm_prompt step whose prompt has a {name} placeholder for a     *)
(* name the context lacks never has the LLM collaborator called for it and *)
(* does not succeed (once the engine has left the step, it is in the log   *)
(* as failed); and when the collaborator returns, the context right after  *)
(* the step is the context before it with the response at output_variable  *)
(* when output_variable is set, and the context before it otherwise.       *)
(* Keys are never removed from the context, so a name the context lacks    *)
(* now was lacking when the step ran.                                      *)
(***************************************************************************)
\* The names between a '{' and the next '}' of a template.
Placeholders(t) ==
    {SubSeq(t, a + 1, b - 1) : <<a, b>> \in
        {x \in (1..Len(t)) \X (1..Len(t)) :
            /\ x[1] < x[2] /\ t[x[1]] = "{" /\ t[x[2]] = "}"
            /\ \A m \in (x[1] + 1)..(x[2] - 1) : t[m] \notin {"{", "}"}}}

LlmCalls(e, k) ==
    Len(SelectSeq(e.invoked, LAMBDA x : x.idx = k /\ x.kind = "get_llm_response"))

\* The context of e without the summary run() adds when it returns.
WithoutSummary(ctx) ==
    [x \in DOMAIN ctx \ {EXECUTION_SUMMARY} |-> ctx[x]]

\* The context right after the step at place k, in a state e where the
\* engine has left the step: the context the next node was handed, or the
\* context run() ended with.
ContextAfterStep(e, k) ==
    IF Len(e.contexts) > k THEN e.contexts[k + 1] ELSE WithoutSummary(e.context)

C13_MissingPlaceholderFails ==
    \A i \in ExecutorIds :
        LET e == executor[i]
        IN  \A k \in 1..Len(e.executed) :
                ( /\ e.sorted_nodes[k].type = "llm_prompt"
                  /\ \E name \in Placeholders(e.sorted_nodes[k].prompt) :
                         name \notin DOMAIN e.context )
                    => /\ LlmCalls(e, k) = 0
                       /\ k \notin SucceededAt(e)
                       /\ StepEnded(e, k) => k \in FailedAt(e)

C13_ResponseStored ==
    \A i \in ExecutorIds :
        LET e == executor[i]
            e2 == executor'[i]
            output_variable == e.sorted_nodes[e.idx].output_variable
            after == ContextAfterStep(e2, e.idx)
        IN  e.pc = "llm"
                => /\ e.idx \in SucceededAt(e2)
                   /\ IF output_variable \in {None, <<>>}
                      THEN after = e.context
                      ELSE /\ DOMAIN after = DOMAIN e.context \cup {output_variable}
                           /\ after[output_variable] \in {LLM_COMPLETION, LLM_API_ERROR}
                           /\ \A x \in DOMAIN e.context \ {output_variable} :
                                  after[x] = e.context[x]

C13_LlmPromptStep ==
    []C13_MissingPlaceholderFails /\ [][C13_ResponseStored]_vars

\* A step whose prompt refers to {topic} has failed on a context without
\* topic, and another llm_prompt step has stored the completion at 'answer'.
C13_Witness ==
    \E i \in ExecutorIds :
        LET e == executor[i]
        IN  /\ \E k \in FailedAt(e) :
                   /\ e.sorted_nodes[k].type = "llm_prompt"
                   /\ <<"topic">> \in Placeholders(e.sorted_nodes[k].prompt)
                   /\ <<"topic">> \notin DOMAIN e.context
                   /\ FailureOf(e, k) = "KeyError"
            /\ \E k \in SucceededAt(e) :
                   /\ e.sorted_nodes[k].type = "llm_prompt"
                   /\ <<"answer">> \in DOMAIN e.context
                   /\ e.context[<<"answer">>] = LLM_COMPLETION

(***************************************************************************)
(* C14, as claimed: a send_response step whose message is a '$' reference  *)
(* to a variable the context lacks fails (and run() raises under the       *)
(* default policy); after every other send_response step                   *)
(* context['_last_response'] holds the referenced variable's value or the  *)
(* rendered message; the step calls no collaborator.                       *)
(***************************************************************************)
MessageOf(node) == IF node.message \in {None, <<>>} THEN <<>> ELSE node.message

IsMessageReference(node) == MessageOf(node) # <<>> /\ MessageOf(node)[1] = "$"

DefaultPolicy(node) == NoOnFailure(node) /\ ~node.continue_on_error

RunRaised(e) == e.pc = "raised" /\ e.raised = "WorkflowExecutionError"

NoCollaboratorCall(e, k) == \A j \in 1..Len(e.invoked) : e.invoked[j].idx # k

C14_SendResponseOtherwiseStores ==
    \A i \in ExecutorIds :
        LET e == executor[i]
        IN  \A k \in 1..Len(e.executed) :
                LET node == e.sorted_nodes[k]
                    before == e.contexts[k]
                    after == ContextAfterStep(e, k)
                    name == StripChar(MessageOf(node), "$")
                IN  node.type = "send_response" /\ StepEnded(e, k)
                        => /\ NoCollaboratorCall(e, k)
                           /\ IF IsMessageReference(node) /\ name \notin DOMAIN before
                              THEN /\ k \in FailedAt(e)
                                   /\ DefaultPolicy(node) => RunRaised(e)
                              ELSE /\ LAST_RESPONSE \in DOMAIN after
                                   /\ after[LAST_RESPONSE] =
                                          IF IsMessageReference(node) THEN before[name]
                                          ELSE Str(Format(MessageOf(node), before).value)

(***************************************************************************)
(* C14, amended: a send_response step fails, leaving the context as it     *)
(* was, when its message is a '$' reference to a variable the context      *)
(* lacks and also when its message is a template whose rendering fails (a  *)
(* placeholder for a key the context lacks, a brace left alone); under the *)
(* default policy run() then raises.  Otherwise the step succeeds and the  *)
(* context after it is the context before it with, at '_last_response',    *)
(* the referenced variable's value or the rendered message.  The step      *)
(* calls no collaborator.                                                  *)
(***************************************************************************)
C14_SendResponse ==
    \A i \in ExecutorIds :
        LET e == executor[i]
        IN  \A k \in 1..Len(e.executed) :
                LET node == e.sorted_nodes[k]
                    before == e.contexts[k]
                    after == ContextAfterStep(e, k)
                    name == StripChar(MessageOf(node), "$")
                    rendered == Format(MessageOf(node), before)
                    fails == IF IsMessageReference(node) THEN name \notin DOMAIN before
                             ELSE ~rendered.ok
                IN  node.type = "send_response" /\ StepEnded(e, k)
                        => /\ NoCollaboratorCall(e, k)
                           /\ IF fails
                              THEN /\ k \in FailedAt(e) /\ k \notin SucceededAt(e)
                                   /\ after = before
                                   /\ DefaultPolicy(node) => RunRaised(e)
                              ELSE /\ k \in SucceededAt(e) /\ k \notin FailedAt(e)
                                   /\ after = (LAST_RESPONSE :>
                                                  IF IsMessageReference(node) THEN before[name]
                                                  ELSE Str(rendered.value)) @@ before

\* run() has raised at a send_response step whose message "On {topic}" is
\* no '$' reference, on a context without topic.
C14_Witness ==
    \E i \in ExecutorIds :
        LET e == executor[i]
        IN  \E k \in FailedAt(e) :
                /\ e.sorted_nodes[k].type = "send_response"
                /\ e.sorted_nodes[k].message = <<"On", " ", "{", "topic", "}">>
                /\ <<"topic">> \notin DOMAIN e.context
                /\ DefaultPolicy(e.sorted_nodes[k])
                /\ RunRaised(e)

(***************************************************************************)
(* C15, as claimed: when run() returns for a workflow that is one          *)
(* data_store step with action 'append' and data '$note', under the        *)
(* default policy and with note in the initial context, the user-data      *)
(* collection has had exactly one insert, of the value of note, and the    *)
(* returned context is the initial context: the same keys, the same        *)
(* values.                                                                 *)
(***************************************************************************)
\* The workflow of scenario A: one data_store step that appends $note.
IsAppendNoteWorkflow(e) ==
    /\ WorkflowFound(e)
    /\ Len(DeclaredNodes(e)) = 1
    /\ DeclaredNodes(e)[1].type = "data_store"
    /\ DeclaredNodes(e)[1].action = <<"append">>
    /\ DeclaredNodes(e)[1].data = <<"$", "note">>
    /\ DefaultPolicy(DeclaredNodes(e)[1])

InsertCalls(e) == Len(SelectSeq(e.invoked, LAMBDA x : x.kind = "insert_one"))

C15_AppendLeavesContext ==
    \A i \in ExecutorIds :
        LET e == executor[i]
        IN  ( /\ e.pc = "returned"
              /\ IsAppendNoteWorkflow(e)
              /\ <<"note">> \in DOMAIN e.start.context )
                => /\ InsertCalls(e) = 1
                   /\ user_data = <<e.start.context[<<"note">>]>>
                   /\ e.result = e.start.context

(***************************************************************************)
(* C16, as claimed: when a run() begins, the second run() on an executor   *)
(* included, the context holds the initial_context it was given and        *)
(* nothing else, and execution_log and failed_steps are empty.             *)
(***************************************************************************)
C16_FreshStateEveryRun ==
    \A i \in ExecutorIds :
        LET e == executor[i]
        IN  e.runs >= 1
                => /\ e.start.context = e.start.given
                   /\ e.start.log = 0
                   /\ e.start.failed = 0

(***************************************************************************)
(* C17: when the runs of two executors are interleaved at their suspension *)
(* points, every step is a step of one run: it leaves the other executor   *)
(* (its context, execution_log and failed_steps included) as it was, and   *)
(* it takes the run's executor to a state the run reaches alone from where *)
(* it was, for some result of the collaborator it waited for.  So each run *)
(* ends as it ends alone with the same collaborator results.  In every     *)
(* state the log of an executor is about its own nodes and its context     *)
(* holds only what it was given and what its own nodes write.              *)
(***************************************************************************)
\* The states a run alone can go to from e in one step: run() being called,
\* or the collaborator call or the sleep it waits for ending.
StepsAlone(e) ==
    CASE e.pc = "idle" ->
             {run(e, w, c) : w \in WorkflowIds, c \in InitialContexts}
      [] e.pc = "llm" ->
             {llm_returned(e, get_llm_response(o)) : o \in LlmOutcomes}
      [] e.pc = "tool" ->
             {IF execute_tool_error(o) # "" THEN attempt_failed(e, execute_tool_error(o))
              ELSE tool_returned(e, execute_tool_result(e.call.tool, o)) : o \in ExecutorOutcomes}
      [] e.pc = "insert" ->
             {node_failed(e, "PyMongoError")}
                 \cup IF "dict" \in DOMAIN e.call.document THEN {node_succeeded(e)} ELSE {}
      [] e.pc = "sleep" ->
             {attempt_node([e EXCEPT !.attempt = @ + 1, !.call = NoCall])}
      [] OTHER -> {}

\* The context keys the nodes of e can write: the summary, the response,
\* the output variables, and the variables whose documents data_store
\* nodes hand to insert_one.
KeysWritten(e) ==
    {LAST_RESPONSE, EXECUTION_SUMMARY}
        \cup {e.sorted_nodes[k].output_variable : k \in 1..Len(e.sorted_nodes)}
        \cup {StripChar(e.sorted_nodes[k].data, "$") :
                 k \in {j \in 1..Len(e.sorted_nodes) : e.sorted_nodes[j].type = "data_store"}}

OwnStateOnly(e) ==
    /\ DOMAIN e.context \subseteq DOMAIN e.start.given \cup KeysWritten(e)
    /\ \A x \in DOMAIN e.start.given \ KeysWritten(e) : e.context[x] = e.start.given[x]
    /\ Len(e.execution_log) = Len(e.logged)
    /\ \A j \in 1..Len(e.execution_log) :
           /\ e.logged[j] \in 1..Len(e.executed)
           /\ e.execution_log[j].node_id = e.sorted_nodes[e.logged[j]].nodeId
           /\ e.execution_log[j].step_type = e.sorted_nodes[e.logged[j]].type
    /\ \A j \in 1..Len(e.failed_steps) :
           \E m \in 1..Len(e.execution_log) : e.execution_log[m] = e.failed_steps[j]

C17_StepOfOneRun ==
    \E i \in DOMAIN executor :
        /\ executor'[i] \in StepsAlone(executor[i])
        /\ \A j \in DOMAIN executor \ {i} : executor'[j] = executor[j]

C18_SummaryConsistent ==
    \A i \in ExecutorIds :
        LET summary == get_execution_summary(executor[i])
            failed == SelectSeq(summary.execution_log, LAMBDA x : x.status = "failed")
        IN  /\ summary.failed_steps = failed
            /\ summary.failed_step_count = Len(failed)
            /\ summary.total_steps_executed = Len(summary.execution_log)
            /\ summary.execution_log = executor[i].execution_log
            /\ summary.context = executor[i].context
            /\ \A j \in 1..Len(summary.execution_log) :
                   summary.execution_log[j].status \in {"success", "failed"}

\* run() has raised with two successes and then a failure in the log.
C18_Witness ==
    \E i \in ExecutorIds :
        LET summary == get_execution_summary(executor[i])
        IN  /\ executor[i].pc = "raised"
            /\ summary.failed_step_count = 1
            /\ summary.total_steps_executed = 3
            /\ summary.execution_log[3].status = "failed"

(***************************************************************************)
(* C19: execute_tool on a tool whose type is not in the allow-list raises  *)
(* ToolSecurityError and invokes no executor, whatever the params and      *)
(* whatever the tool's toolId and name: a tool with an empty or malformed  *)
(* toolId or an empty name gets ToolSecurityError, not ToolValidationError.*)
(***************************************************************************)
C19_TypeOutsideAllowList ==
    dispatch.pc # "idle" /\ dispatch.tool.type \notin ALLOWED_TOOL_TYPES
        => /\ dispatch.pc = "raised"
           /\ dispatch.raised = "ToolSecurityError"
           /\ dispatch.invoked = <<>>
           /\ dispatch.result = <<>>

\* execute_tool has raised for a tool of type SHELL with an empty toolId
\* and an empty name, called with parameters.
C19_Witness ==
    /\ dispatch.pc = "raised"
    /\ dispatch.tool = Tool(<<>>, "SHELL", <<>>)
    /\ dispatch.params # <<>>

(***************************************************************************)
(* C20, as claimed: in the initial state of the module, execute_tool on a  *)
(* well-formed tool of type API, RSS, DATABASE, TELEGRAM, EMAIL or         *)
(* SCHEDULING finds the type in the allow-list and calls the executor      *)
(* registered for the type.                                                *)
(***************************************************************************)
WellFormed(tool) ==
    /\ tool.toolId # <<>> /\ tool.name # <<>>
    /\ \A j \in 1..Len(tool.toolId) : tool.toolId[j] \notin {"<", ">", " ", "'", ";", "$"}

C20_SixTypesAllowed ==
    ( /\ dispatch.pc # "idle"
      /\ WellFormed(dispatch.tool)
      /\ dispatch.tool.type \in {"API", "RSS", "DATABASE", "TELEGRAM", "EMAIL", "SCHEDULING"} )
        => /\ dispatch.tool.type \in ALLOWED_TOOL_TYPES
           /\ dispatch.tool.type \in DOMAIN TOOL_REGISTRY
           /\ dispatch.invoked = <<TOOL_REGISTRY[dispatch.tool.type]>>

(***************************************************************************)
(* C21, as claimed: execute_tool on a tool of an allow-listed type whose   *)
(* toolId is empty, whose name is empty, or whose toolId contains a        *)
(* character outside [A-Za-z0-9_-] raises ToolValidationError, and the     *)
(* executor of that type is not invoked.                                   *)
(***************************************************************************)
\* A character of the class [A-Za-z0-9_-].
InToolIdClass(c) == c \in Digits \/ c \in {"_", "-"} \/ c \notin Punctuation

Malformed(tool) ==
    \/ tool.toolId = <<>>
    \/ tool.name = <<>>
    \/ \E j \in 1..Len(tool.toolId) : ~InToolIdClass(tool.toolId[j])

C21_MalformedToolRaises ==
    ( /\ dispatch.pc # "idle"
      /\ dispatch.tool.type \in ALLOWED_TOOL_TYPES
      /\ Malformed(dispatch.tool) )
        => /\ dispatch.pc = "raised"
           /\ dispatch.raised = "ToolValidationError"
           /\ dispatch.invoked = <<>>

(***************************************************************************)
(* C22, as claimed: if a tool's type is in the allow-list but no executor  *)
(* is registered for it, execute_tool raises ToolExecutionError.           *)
(***************************************************************************)
AllowedUnregistered(call) ==
    /\ call.pc # "idle"
    /\ call.tool.type \in ALLOWED_TOOL_TYPES
    /\ call.tool.type \notin DOMAIN TOOL_REGISTRY

OthersUnchanged(t, before) ==
    /\ DOMAIN TOOL_REGISTRY \ {t} = DOMAIN before.TOOL_REGISTRY \ {t}
    /\ \A u \in DOMAIN TOOL_REGISTRY \ {t} : TOOL_REGISTRY[u] = before.TOOL_REGISTRY[u]
    /\ ALLOWED_TOOL_TYPES \ {t} = before.ALLOWED_TOOL_TYPES \ {t}

C23_AddToolType ==
    called.fn = "add_tool_type" =>
        LET t == called.args[1]
            f == called.args[2]
        IN  IF MatchesToolType(t)
            THEN /\ called.pc = "returned"
                 /\ t \in DOMAIN TOOL_REGISTRY /\ TOOL_REGISTRY[t] = f
                 /\ t \in ALLOWED_TOOL_TYPES
                 /\ OthersUnchanged(t, called.before)
            ELSE /\ called.pc = "raised" /\ called.raised = "ValueError"
                 /\ TOOL_REGISTRY = called.before.TOOL_REGISTRY
                 /\ ALLOWED_TOOL_TYPES = called.before.ALLOWED_TOOL_TYPES

\* add_tool_type('EMAIL', my_tool) has returned where EMAIL had another
\* executor and was not allow-listed.
C23_Witness ==
    /\ called.fn = "add_tool_type" /\ called.pc = "returned"
    /\ called.args = <<"EMAIL", "my_tool">>
    /\ called.before.TOOL_REGISTRY["EMAIL"] = "execute_email_tool"
    /\ "EMAIL" \notin called.before.ALLOWED_TOOL_TYPES
    /\ TOOL_REGISTRY["EMAIL"] = "my_tool"

(***************************************************************************)
(* C24: after remove_tool_type(t), in every state reachable by             *)
(* add_tool_type and remove_tool_type calls and for every t, t is in       *)
(* neither the executor registry nor the allow-list, so that execute_tool  *)
(* on a tool of type t raises ToolSecurityError, and the entries of every  *)
(* other type are unchanged.                                               *)
(***************************************************************************)
C24_RemoveToolType ==
    called.fn = "remove_tool_type" =>
        LET t == called.args[1]
        IN  /\ called.pc = "returned"
            /\ t \notin DOMAIN TOOL_REGISTRY
            /\ t \notin ALLOWED_TOOL_TYPES
            /\ OthersUnchanged(t, called.before)
            /\ \A tool \in DispatchTools \cup RegistryTools :
                   tool.type = t =>
                       LET call == execute_tool(tool, <<>>)
                       IN  /\ call.pc = "raised"
                           /\ call.raised = "ToolSecurityError"
                           /\ call.invoked = <<>>

\* remove_tool_type('API') has returned where API was registered and
\* allow-listed, and execute_tool on an API tool has raised
\* ToolSecurityError.
C24_Witness ==
    /\ called.fn = "remove_tool_type" /\ called.pc = "returned"
    /\ called.args = <<"API">>
    /\ "API" \in DOMAIN called.before.TOOL_REGISTRY
    /\ "API" \in called.before.ALLOWED_TOOL_TYPES
    /\ dispatch.pc = "raised" /\ dispatch.tool.type = "API"
    /\ dispatch.raised = "ToolSecurityError"

(***************************************************************************)
(* C25: whenever execute_tool returns, the result is a key-value map that  *)
(* contains '_tool_metadata' with the tool's toolId and type; an executor  *)
(* result that is not a map is returned wrapped as {'result': value} with  *)
(* the metadata added, and the other keys of a map result are kept.        *)
(***************************************************************************)
C25_ResultHasMetadata ==
    dispatch.pc = "returned" =>
        LET value == dispatch.executor_returned
            result == dispatch.result
        IN  /\ "dict" \in DOMAIN result
            /\ TOOL_METADATA \in DOMAIN result.dict
            /\ result.dict[TOOL_METADATA].tool_id = dispatch.tool.toolId
            /\ result.dict[TOOL_METADATA].tool_type = dispatch.tool.type
            /\ IF "dict" \in DOMAIN value
               THEN /\ DOMAIN result.dict = DOMAIN value.dict \cup {TOOL_METADATA}
                    /\ \A k \in DOMAIN value.dict \ {TOOL_METADATA} :
                           result.dict[k] = value.dict[k]
               ELSE /\ DOMAIN result.dict = {<<"result">>, TOOL_METADATA}
                    /\ result.dict[<<"result">>] = value

\* execute_tool has returned {'result': None} with the metadata for an
\* executor that returned None.
C25_Witness ==
    /\ dispatch.pc = "returned"
    /\ dispatch.executor_returned = [none |-> TRUE]
    /\ dispatch.result.dict[<<"result">>] = [none |-> TRUE]

(***************************************************************************)
(* C27, as claimed: validate_url returns true exactly when the URL's       *)
(* scheme is http or https, the URL contains none of 'localhost',          *)
(* '127.0.0.1', '0.0.0.0', 'file://' as a case-insensitive substring       *)
(* anywhere, and it contains none of the characters < > " ' ; backslash.   *)
(***************************************************************************)
\* The URL begins with the scheme, in any case, and a colon.
HasScheme(url, scheme) ==
    /\ Len(url) > Len(scheme)
    /\ Lower(SubSeq(url, 1, Len(scheme))) = scheme
    /\ url[Len(scheme) + 1] = ":"

MentionsLocal(url) ==
    \E i \in DOMAIN url, pattern \in DangerousPatterns :
        /\ i + Len(pattern) - 1 <= Len(url)
        /\ Lower(SubSeq(url, i, i + Len(pattern) - 1)) = pattern

HasSuspiciousChar(url) ==
    \E i \in DOMAIN url : url[i] \in {"<", ">", "\"", "'", ";", "\\"}

ThreeConditions(url) ==
    /\ HasScheme(url, <<"h", "t", "t", "p">>) \/ HasScheme(url, <<"h", "t", "t", "p", "s">>)
    /\ ~MentionsLocal(url)
    /\ ~HasSuspiciousChar(url)

C27_ValidateUrlExactly ==
    called.fn = "validate_url" /\ called.pc = "returned"
        => (called.value <=> ThreeConditions(called.args[1]))

(***************************************************************************)
(* C27, amended: validate_url returns true exactly when urlparse accepts   *)
(* the URL (it raises for a network location whose square brackets do not  *)
(* match or do not hold an IPv6 address), the URL's scheme is http or      *)
(* https, the URL contains none of 'localhost', '127.0.0.1', '0.0.0.0',    *)
(* 'file://' as a case-insensitive substring anywhere, and it contains     *)
(* none of the characters < > " ' ; backslash.  It is false for            *)
(* http://127.0.0.1:8000/x, file:///etc/passwd and http://x.com/<script>,  *)
(* and true for https://api.example.com/v1/data.                           *)
(***************************************************************************)
C27_ValidateUrl ==
    /\ called.fn = "validate_url" /\ called.pc = "returned"
           => (called.value <=>
                   /\ urlsplit(called.args[1]).raised = ""
                   /\ ThreeConditions(called.args[1]))
    /\ ~validate_url(<<"h", "t", "t", "p", ":", "/", "/", "1", "2", "7", ".", "0", ".", "0", ".", "1", ":", "8", "0", "0", "0", "/", "x">>)
    /\ ~validate_url(<<"f", "i", "l", "e", ":", "/", "/", "/", "e", "t", "c", "/", "p", "a", "s", "s", "w", "d">>)
    /\ ~validate_url(<<"h", "t", "t", "p", ":", "/", "/", "x", ".", "c", "o", "m", "/", "<", "s", "c", "r", "i", "p", "t", ">">>)
    /\ validate_url(<<"h", "t", "t", "p", "s", ":", "/", "/", "a", "p", "i", ".", "e", "x", "a", "m", "p", "l", "e", ".", "c", "o", "m", "/", "v", "1", "/", "d", "a", "t", "a">>)

\* validate_url has returned false for a URL with LOCALHOST in capitals
\* that has an http scheme and no suspicious character.
C27_Witness ==
    /\ called.fn = "validate_url" /\ called.pc = "returned"
    /\ called.args[1] = <<"h", "t", "t", "p", ":", "/", "/", "L", "O", "C", "A", "L", "H", "O", "S", "T", "/", "v", "1", "/", "d", "a", "t", "a">>
    /\ called.value = FALSE

(***************************************************************************)
(* C28: when validate_and_sanitize_input succeeds, the result has exactly  *)
(* the keys of the input; each string value is the input string with every *)
(* occurrence of the characters < > " ' ; backslash removed and then cut   *)
(* to its first 1000 characters, so it has at most 1000 characters and     *)
(* none of those characters; every number, boolean, list and map value is  *)
(* identical to the input value.                                           *)
(***************************************************************************)
Sanitized(call) == call.fn = "validate_and_sanitize_input" /\ call.pc = "returned"

KeysOf(params) == IF params = NoneParams THEN {} ELSE DOMAIN params

Disallowed == {"<", ">", "\"", "'", ";", "\\"}

Cleaned(s) == SelectSeq(s, LAMBDA c : c \notin Disallowed)

FirstCallEnded(call) ==
    /\ call.fn = "validate_and_sanitize_input"
    /\ call.pc \in {"returned", "raised"}
    /\ call.before = <<>>

BadKey(key) == ~IsStrKey(key) \/ ~MatchesParamKey(key)

IsCollection(value) == "list" \in DOMAIN value \/ "dict" \in DOMAIN value

TooLarge(value) ==
    IsCollection(value) /\ json_dumps(value).raised = "" /\ json_dumps(value).len > 5000

NotSerializable(value) == IsCollection(value) /\ json_dumps(value).raised # ""

OtherType(value) ==
    \A kind \in {"str", "num", "bool", "list", "dict"} : kind \notin DOMAIN value

Outcome(call, rejected) ==
    IF rejected
    THEN call.pc = "raised" /\ call.raised = "ToolValidationError" /\ call.value = <<>>
    ELSE call.pc = "returned" /\ call.raised = ""

C29_RaisesForThreeCauses ==
    FirstCallEnded(called) =>
        LET input == called.args[1]
        IN  IF KeysOf(input) = {}
            THEN called.pc = "returned" /\ called.value = <<>>
            ELSE Outcome(called,
                         \E key \in KeysOf(input) :
                             \/ BadKey(key)
                             \/ TooLarge(input[key])
                             \/ OtherType(input[key]))

(***************************************************************************)
(* C29, amended: validate_and_sanitize_input raises ToolValidationError,   *)
(* returning no partial map, whenever some key is not a string matching    *)
(* ^[A-Za-z0-9_]+$, some list or map value cannot be serialized to JSON    *)
(* or serializes to more than 5000 characters, or some value is neither a  *)
(* string, a number, a boolean, a list nor a map (a null value included);  *)
(* on every other non-empty input it succeeds, and on an empty or absent   *)
(* input it returns the empty map.                                         *)
(***************************************************************************)
C29_RaisesForFourCauses ==
    FirstCallEnded(called) =>
        LET input == called.args[1]
        IN  IF KeysOf(input) = {}
            THEN called.pc = "returned" /\ called.value = <<>>
            ELSE Outcome(called,
                         \E key \in KeysOf(input) :
                             \/ BadKey(key)
                             \/ TooLarge(input[key])
                             \/ NotSerializable(input[key])
                             \/ OtherType(input[key]))

\* The call has raised, with no map, for a map whose first value is a
\* plain string and whose second value is None.
C29_Witness ==
    /\ FirstCallEnded(called) /\ called.pc = "raised"
    /\ called.args[1] = (<<"query">> :> Str(<<"t", "e", "s", "t", " ", "q", "u", "e", "r", "y">>)) @@
                        (<<"extra">> :> [none |-> TRUE])
    /\ called.value = <<>>

(***************************************************************************)
(* C30: sanitizing is idempotent: for every parameter map on which         *)
(* validate_and_sanitize_input succeeds, sanitizing the result again       *)
(* succeeds and returns a map equal to the first result; a map on which it *)
(* succeeds that has no disallowed characters in its strings and is within *)
(* the length caps is returned unchanged.                                  *)
(***************************************************************************)
CleanValue(value) ==
    "str" \in DOMAIN value =>
        /\ Len(value.str) <= 1000
        /\ \A i \in DOMAIN value.str : value.str[i] \notin Disallowed

C30_Idempotent ==
    /\ called.fn = "validate_and_sanitize_input" /\ called.before # <<>>
           => /\ called.pc = "returned"
              /\ called.value = called.before[1].value
              /\ called.value = called.args[1]
    /\ ( /\ Sanitized(called)
         /\ called.args[1] # NoneParams
         /\ \A key \in KeysOf(called.args[1]) : CleanValue(called.args[1][key]) )
           => called.value = called.args[1]

\* The second call has returned what the first returned, and the first had
\* removed characters from an entry.
C30_Witness ==
    /\ called.fn = "validate_and_sanitize_input" /\ called.before # <<>>
    /\ called.pc = "returned"
    /\ called.before[1].args[1] # called.before[1].value
    /\ called.value = called.before[1].value
    /\ <<"extra">> \in DOMAIN called.value

(***************************************************************************)
(* C26: the API and RSS executors send no outbound HTTP request unless the *)
(* tool's endpoint/url is present and passes validate_url: a missing one   *)
(* raises ToolValidationError and a rejected one raises ToolSecurityError, *)
(* both before parameter sanitization and before any request is made.      *)
(***************************************************************************)
\* The address the executor of the call is to fetch.
Target(call) ==
    IF call.fn = "execute_api_tool" THEN call.args[1].endpoint ELSE call.args[1].url

Started(call) ==
    call.fn \in {"execute_api_tool", "execute_rss_tool"} /\ call.pc # "idle"

Present(url) == url # None /\ url # <<>>

C26_NoRequestWithoutValidUrl ==
    Started(called) =>
        /\ called.requests # <<>> =>
               /\ Present(Target(called))
               /\ validate_url(Target(called))
               /\ \A i \in DOMAIN called.requests : called.requests[i].url = Target(called)
        /\ ~Present(Target(called)) =>
               /\ called.pc = "raised" /\ called.raised = "ToolValidationError"
               /\ called.calls = <<>> /\ called.requests = <<>>
        /\ Present(Target(called)) /\ ~validate_url(Target(called)) =>
               /\ called.pc = "raised" /\ called.raised = "ToolSecurityError"
               /\ called.calls = <<"validate_url">> /\ called.requests = <<>>

\* execute_api_tool has raised ToolSecurityError for the endpoint
\* http://localhost/api and parameters the sanitizer rejects.
C26_Witness ==
    /\ called.fn = "execute_api_tool" /\ called.pc = "raised"
    /\ called.args[1].endpoint = <<"h", "t", "t", "p", ":", "/", "/", "l", "o", "c", "a", "l", "h", "o", "s", "t", "/", "a", "p", "i">>
    /\ called.args[2] = (<<"bad", " ", "key">> :> [num |-> 1])
    /\ called.raised = "ToolSecurityError"
    /\ called.requests = <<>>

(***************************************************************************)
(* C31, as claimed: every step the run loop has executed has at least one  *)
(* entry in the execution log, whatever its type and outcome (so the log   *)
(* of a run has at least as many entries as steps executed), and every     *)
(* entry with status 'failed' is also in failed_steps.                     *)
(***************************************************************************)
\* The entries of the log that this run appended.
EntriesOfRun(e) ==
    {j \in 1..Len(e.execution_log) : e.logged[j] > 0}

\* The places in sorted_nodes of the steps the run has executed and left.
StepsExecuted(e) == {k \in 1..Len(e.executed) : StepEnded(e, k)}

C31_EveryStepLogged ==
    \A i \in ExecutorIds :
        LET e == executor[i]
        IN  /\ \A k \in StepsExecuted(e) : \E j \in EntriesOfRun(e) : e.logged[j] = k
            /\ Cardinality(EntriesOfRun(e)) >= Cardinality(StepsExecuted(e))
            /\ \A j \in 1..Len(e.execution_log) :
                   e.execution_log[j].status = "failed"
                       => \E m \in 1..Len(e.failed_steps) :
                              e.failed_steps[m] = e.execution_log[j]

(***************************************************************************)
(* C32: when every collaborator call returns or raises (and every backoff  *)
(* sleep ends), a run() that has begun ends: it returns, or it raises      *)
(* WorkflowExecutionError and nothing else.  The run hands the sorted      *)
(* nodes to execute_node one at a time in their order, each at most once;  *)
(* what it waits for belongs to the node it is at; for a llm_prompt or     *)
(* tool_call node it makes at most 3 attempts, at most 3 calls of the LLM  *)
(* handler, of the dispatcher and of the tool's executor; for a data_store *)
(* node at most 1 insert_one.                                              *)
(***************************************************************************)
\* The calls of one kind made for the node at place k.
Calls(e, k, kind) ==
    Len(SelectSeq(e.invoked, LAMBDA x : x.idx = k /\ x.kind = kind))

Waiting(e) == e.pc \in {"llm", "tool", "insert", "sleep"}

Ended(e) == e.pc \in {"returned", "raised"}

C32_Bounded ==
    \A i \in ExecutorIds :
        LET e == executor[i]
        IN  /\ e.raised \in {"", "WorkflowExecutionError"}
            /\ e.pc = "raised" <=> e.raised = "WorkflowExecutionError"
            /\ Len(e.executed) <= Len(e.sorted_nodes)
            /\ e.executed = UpTo(Len(e.executed))
            /\ Waiting(e) => e.idx = Len(e.executed)
            /\ \A j \in 1..Len(e.invoked) : e.invoked[j].idx \in 1..Len(e.executed)
            /\ \A j \in 1..(Len(e.invoked) - 1) : e.invoked[j].idx <= e.invoked[j + 1].idx
            /\ \A k \in 1..Len(e.executed) :
                   /\ Count(e.attempted, k) <= 3
                   /\ Calls(e, k, "get_llm_response") <= 3
                   /\ Calls(e, k, "execute_tool") <= 3
                   /\ Calls(e, k, "executor") <= 3
                   /\ Calls(e, k, "insert_one") <= 1
                   /\ e.sorted_nodes[k].type # "llm_prompt" => Calls(e, k, "get_llm_response") = 0
                   /\ e.sorted_nodes[k].type # "tool_call" => Calls(e, k, "execute_tool") = 0
                   /\ e.sorted_nodes[k].type # "data_store" => Calls(e, k, "insert_one") = 0

C32_Terminates ==
    \A i \in ExecutorIds : Waiting(executor[i]) ~> Ended(executor[i])

C32_RunTerminates == []C32_Bounded /\ C32_Terminates

\* A run has returned after a tool_call step whose executor was awaited
\* three times and a data_store step that inserted once.
C32_Witness ==
    \E i \in ExecutorIds :
        LET e == executor[i]
        IN  /\ e.pc = "returned"
            /\ Len(e.executed) = 2
            /\ e.sorted_nodes[1].type = "tool_call"
            /\ Calls(e, 1, "executor") = 3
            /\ 1 \in FailedAt(e)
            /\ e.sorted_nodes[2].type = "data_store"
            /\ Calls(e, 2, "insert_one") = 1
            /\ Len(user_data) = 1

(***************************************************************************)
(* C33, as claimed: when the provider's API raises during an llm_prompt    *)
(* step, the engine sees an error: the attempt fails, so the engine either *)
(* sleeps before the next attempt or, after the third, records the step as *)
(* failed; the step is not logged as a success and the context is left as  *)
(* it was (nothing is written to context[output_variable]).                *)
(***************************************************************************)
\* The step of executor i in which the provider's API call it waits for raises.
ProviderRaises(i) ==
    /\ executor[i].pc = "llm"
    /\ executor'[i] = llm_returned(executor[i], get_llm_response("error"))

C33_ProviderFailureIsAnError ==
    [][\A i \in ExecutorIds :
           LET e == executor[i]
               e2 == executor'[i]
           IN  ProviderRaises(i)
                   => /\ e.idx \notin SucceededAt(e2)
                      /\ \/ e2.pc = "sleep" /\ e2.idx = e.idx
                         \/ Count(e.attempted, e.idx) = 3 /\ e.idx \in FailedAt(e2)
                      /\ ContextAfterStep(e2, e.idx) = e.context]_vars

(***************************************************************************)
(* C34, as claimed: a step that has failed, whatever its type and its      *)
(* on_failure / continue_on_error policy and with all its attempts, has    *)
(* left the context as it found it: the context right after the step       *)
(* equals the context the node was handed.                                 *)
(***************************************************************************)
C34_FailedStepLeavesContext ==
    \A i \in ExecutorIds :
        LET e == executor[i]
        IN  \A k \in FailedAt(e) : ContextAfterStep(e, k) = e.contexts[k]

(***************************************************************************)
(* C35: when a step that declares a non-empty on_failure fails, the action *)
(* alone decides and continue_on_error is not consulted.  With 'continue'  *)
(* the run goes on to the next node (or returns, after the last one) even  *)
(* if continue_on_error is false.  With 'stop', 'retry' or a value the     *)
(* engine does not know, the run halts gracefully even if                  *)
(* continue_on_error is true: run() returns, it does not raise, and no     *)
(* later node is executed.  In neither case does run() raise at that step. *)
(***************************************************************************)
DeclaresOnFailure(node) == Truthy(node.on_failure)

C35_OnFailureDecides ==
    \A i \in ExecutorIds :
        LET e == executor[i]
        IN  \A k \in FailedAt(e) :
                DeclaresOnFailure(e.sorted_nodes[k])
                    => /\ e.pc = "raised" => Len(e.executed) > k
                       /\ IF e.sorted_nodes[k].on_failure = <<"continue">>
                          THEN WentOnAfter(e, k)
                          ELSE /\ e.pc = "returned"
                               /\ e.raised = ""
                               /\ e.executed = UpTo(k)
                               /\ NothingAfterReturned(e, k)

\* A step with on_failure = 'continue' and continue_on_error = false has
\* failed and the next step was executed; that step, with an on_failure
\* value the engine does not know and continue_on_error = true, has failed
\* and run() has returned before the last node.
C35_Witness ==
    \E i \in ExecutorIds :
        LET e == executor[i]
        IN  /\ e.pc = "returned"
            /\ Len(e.sorted_nodes) = 3
            /\ e.executed = UpTo(2)
            /\ FailedAt(e) = {1, 2}
            /\ e.sorted_nodes[1].on_failure = <<"continue">>
            /\ ~e.sorted_nodes[1].continue_on_error
            /\ e.sorted_nodes[2].on_failure = <<"skip">>
            /\ e.sorted_nodes[2].continue_on_error

(***************************************************************************)
(* C36: in every state reached from the initial state of the module by     *)
(* add_tool_type, remove_tool_type and execute_tool calls in any order,    *)
(* every type in the allow-list has an executor in the registry, so that   *)
(* execute_tool on a tool of an allow-listed type does not raise the       *)
(* 'Unsupported tool type' ToolExecutionError of the registry lookup: it   *)
(* raises ToolValidationError or awaits the type's executor.               *)
(***************************************************************************)
\* The call ended at the registry lookup: ToolExecutionError with no
\* executor awaited.
UnsupportedToolType(call) ==
    call.pc = "raised" /\ call.raised = "ToolExecutionError" /\ call.invoked = <<>>

C36_AllowListRegistered ==
    /\ ALLOWED_TOOL_TYPES \subseteq DOMAIN TOOL_REGISTRY
    /\ ~UnsupportedToolType(dispatch)
    /\ \A tool \in DispatchTools \cup RegistryTools :
           tool.type \in ALLOWED_TOOL_TYPES =>
               LET call == execute_tool(tool, <<>>)
               IN  /\ ~UnsupportedToolType(call)
                   /\ call.pc = "raised" => call.raised = "ToolValidationError"
                   /\ call.pc = "executor" => call.invoked = <<TOOL_REGISTRY[tool.type]>>

\* After HOOK_2 was added and API removed, execute_tool awaits the executor
\* registered for a HOOK_2 tool.
C36_Witness ==
    /\ "HOOK_2" \in ALLOWED_TOOL_TYPES
    /\ "API" \notin DOMAIN TOOL_REGISTRY
    /\ called.fn = "remove_tool_type"
    /\ dispatch.pc = "executor"
    /\ dispatch.tool.type = "HOOK_2"
    /\ dispatch.invoked = <<"my_tool">>

(***************************************************************************)
(* The session manager (app/session_manager.py).  Every await of a         *)
(* coroutine is a point where another coroutine may run, so a call of      *)
(* get_or_create_session is two steps: the find_one and, if it found       *)
(* nothing, the insert_one.  A MongoDB operation on one document is        *)
(* atomic.                                                                 *)
(***************************************************************************)
SessionTasks == 1 .. 2
SessionUsers == {"u1", "system_scheduler_s1"}
SessionAgents == {"a1"}

\* The number of calls one task makes, one after the other.
MaxCalls == 2

\* The positions of the documents of a collection that match a query.
Matching(collection, query(_)) ==
    {i \in 1 .. Len(collection) : query(collection[i])}

IdleTask ==
    [fn |-> "", pc |-> "idle", user_id |-> "", agent_id |-> "", session |-> None,
     calls |-> 0, concurrent |-> {}]

InFlight(t) == tasks[t].pc \in {"find_one", "insert_one"}

\* str(uuid.uuid4()): a value no other call draws.
uuid4(t) == <<t, tasks[t].calls>>

\* A task calls get_or_create_session(user_id, agent_id) and reaches the
\* await of find_one.  concurrent records the tasks whose call is in
\* flight at a moment this call is in flight too.
get_or_create_session(t, user_id, agent_id) ==
    /\ tasks[t].pc \in {"idle", "returned"}
    /\ tasks[t].calls < MaxCalls
    /\ LET others == {u \in DOMAIN tasks : u # t /\ InFlight(u)}
       IN  tasks' = [u \in DOMAIN tasks |->
                        IF u = t
                        THEN [fn |-> "get_or_create_session", pc |-> "find_one",
                              user_id |-> user_id, agent_id |-> agent_id,
                              session |-> None, calls |-> tasks[t].calls + 1,
                              concurrent |-> others]
                        ELSE IF u \in others
                        THEN [tasks[u] EXCEPT !.concurrent = @ \cup {t}]
                        ELSE tasks[u]]
    /\ UNCHANGED <<executor, TOOL_REGISTRY, ALLOWED_TOOL_TYPES, user_data, dispatch, called>>
    /\ UNCHANGED <<sessions_collection, telegram_auth, smart_conversations, utcnow>>

\* find_one answers: an active session of the pair is returned as it is;
\* with none the session document is built and the task reaches the await
\* of insert_one.
get_or_create_session_find_one(t) ==
    /\ tasks[t].pc = "find_one"
    /\ LET query(d) == /\ d.user_id = tasks[t].user_id
                       /\ d.agent_id = tasks[t].agent_id
                       /\ d.active
           found == Matching(sessions_collection, query)
       IN  IF found # {}
           THEN \E i \in found :
                    tasks' = [tasks EXCEPT ![t].pc = "returned",
                                           ![t].session = sessions_collection[i]]
           ELSE tasks' = [tasks EXCEPT
                             ![t].pc = "insert_one",
                             ![t].session = [session_id |-> uuid4(t),
                                             user_id |-> tasks[t].user_id,
                                             agent_id |-> tasks[t].agent_id,
                                             active |-> TRUE]]
    /\ UNCHANGED <<executor, TOOL_REGISTRY, ALLOWED_TOOL_TYPES, user_data, dispatch, called>>
    /\ UNCHANGED <<sessions_collection, telegram_auth, smart_conversations, utcnow>>

\* insert_one answers: the document is in the collection and is returned.
get_or_create_session_insert_one(t) ==
    /\ tasks[t].pc = "insert_one"
    /\ sessions_collection' = Append(sessions_collection, tasks[t].session)
    /\ tasks' = [tasks EXCEPT ![t].pc = "returned"]
    /\ UNCHANGED <<executor, TOOL_REGISTRY, ALLOWED_TOOL_TYPES, user_data, dispatch, called>>
    /\ UNCHANGED <<telegram_auth, smart_conversations, utcnow>>

\* end_session(session_id): one update_one.
end_session(session_id) ==
    /\ LET query(d) == d.session_id = session_id
           found == Matching(sessions_collection, query)
       IN  /\ found # {}
           /\ \E i \in found :
                  sessions_collection' = [sessions_collection EXCEPT ![i].active = FALSE]
    /\ UNCHANGED <<executor, TOOL_REGISTRY, ALLOWED_TOOL_TYPES, user_data, dispatch, called>>
    /\ UNCHANGED <<telegram_auth, smart_conversations, tasks, utcnow>>

\* The engine and the dispatcher as they are after the import of their
\* modules, with no workflow running.
EngineAtRest ==
    /\ executor = [i \in ExecutorIds |-> NewExecutor(AgentModel(<<>>))]
    /\ TOOL_REGISTRY = [t \in {"API", "RSS", "DATABASE", "TELEGRAM", "SCHEDULING", "EMAIL"} |->
                           CASE t = "API" -> "execute_api_tool"
                             [] t = "RSS" -> "execute_rss_tool"
                             [] t = "DATABASE" -> "execute_database_tool"
                             [] t = "TELEGRAM" -> "execute_telegram_tool"
                             [] t = "SCHEDULING" -> "execute_scheduling_tool"
                             [] t = "EMAIL" -> "execute_email_tool"]
    /\ ALLOWED_TOOL_TYPES = {"API", "RSS", "DATABASE", "TELEGRAM"}
    /\ user_data = <<>>
    /\ dispatch = NoDispatch
    /\ called = NothingCalled

InitSessions ==
    /\ EngineAtRest
    /\ sessions_collection = <<>>
    /\ telegram_auth = <<>>
    /\ smart_conversations = <<>>
    /\ tasks = [t \in SessionTasks |-> IdleTask]
    /\ utcnow = 0

NextSessions ==
    \/ \E t \in SessionTasks, user_id \in SessionUsers, agent_id \in SessionAgents :
           get_or_create_session(t, user_id, agent_id)
    \/ \E t \in SessionTasks : get_or_create_session_find_one(t)
    \/ \E t \in SessionTasks : get_or_create_session_insert_one(t)
    \/ \E i \in 1 .. Len(sessions_collection) :
           end_session(sessions_collection[i].session_id)

SpecSessions == InitSessions /\ [][NextSessions]_vars

(***************************************************************************)
(* C37.  In every interleaving of get_or_create_session and end_session    *)
(* calls the sessions collection holds at most one active session of a     *)
(* user and agent, and two calls for the same user and agent that were in  *)
(* flight at the same time return the same session_id.                     *)
(***************************************************************************)
ActiveSessions(user_id, agent_id) ==
    LET query(d) == d.user_id = user_id /\ d.agent_id = agent_id /\ d.active
    IN  Matching(sessions_collection, query)

Received(t) ==
    /\ tasks[t].fn = "get_or_create_session"
    /\ tasks[t].pc = "returned"

C37_OneActiveSession ==
    /\ \A user_id \in SessionUsers, agent_id \in SessionAgents :
           Cardinality(ActiveSessions(user_id, agent_id)) <= 1
    /\ \A t, u \in SessionTasks :
           /\ Received(t) /\ Received(u)
           /\ u \in tasks[t].concurrent /\ t \in tasks[u].concurrent
           /\ tasks[t].user_id = tasks[u].user_id
           /\ tasks[t].agent_id = tasks[u].agent_id
           => tasks[t].session.session_id = tasks[u].session.session_id

(***************************************************************************)
(* The Telegram authentication manager (app/telegram_auth_manager.py).     *)
(* A call of verify_auth_code is suspended at each of its awaits: the      *)
(* find_one of the request, then the second find_one, the delete_one or    *)
(* the update_one followed by the find_one of the updated record.          *)
(***************************************************************************)
AuthTasks == 1 .. 2
AuthCodes == {<<"K", "7", "P", "2">>, <<"X", "X", "X", "X">>}
ChatIds == {<<"1", "1", "1">>, <<"2", "2", "2">>}

\* timedelta(minutes=10)
ExpiryMinutes == 10

\* The last minute the clock reaches.
MaxMinutes == 11

IdleAuthTask ==
    [fn |-> "", pc |-> "idle", auth_code |-> <<>>, chat_id |-> <<>>,
     auth_request |-> None, result |-> None]

\* The request create_auth_request('u1') inserted at minute 0.
AuthRequest ==
    [user_id |-> <<"u", "1">>, chat_id |-> <<>>, auth_code |-> <<"K", "7", "P", "2">>,
     is_verified |-> FALSE, created_at |-> 0]

\* A minute passes.
Tick ==
    /\ utcnow < MaxMinutes
    /\ utcnow' = utcnow + 1
    /\ UNCHANGED <<executor, TOOL_REGISTRY, ALLOWED_TOOL_TYPES, user_data, dispatch, called>>
    /\ UNCHANGED <<sessions_collection, telegram_auth, smart_conversations, tasks>>

\* A task calls verify_auth_code(auth_code, chat_id) and reaches the await
\* of the first find_one.
verify_auth_code(t, auth_code, chat_id) ==
    /\ tasks[t].pc = "idle"
    /\ tasks' = [tasks EXCEPT ![t] = [IdleAuthTask EXCEPT !.fn = "verify_auth_code",
                                                          !.pc = "find_one",
                                                          !.auth_code = auth_code,
                                                          !.chat_id = chat_id]]
    /\ UNCHANGED <<executor, TOOL_REGISTRY, ALLOWED_TOOL_TYPES, user_data, dispatch, called>>
    /\ UNCHANGED <<sessions_collection, telegram_auth, smart_conversations, utcnow>>

\* find_one({auth_code, is_verified: False}) answers.  With no request the
\* task goes on to the find_one of any request of the code; with a request
\* older than ten minutes to the delete_one; otherwise to the update_one.
verify_auth_code_find_one(t) ==
    /\ tasks[t].pc = "find_one"
    /\ LET query(d) == d.auth_code = tasks[t].auth_code /\ ~d.is_verified
           found == Matching(telegram_auth, query)
       IN  IF found = {}
           THEN tasks' = [tasks EXCEPT ![t].pc = "find_one_any"]
           ELSE \E i \in found :
                    LET auth_request == telegram_auth[i]
                        time_diff == utcnow - auth_request.created_at
                    IN  tasks' = [tasks EXCEPT
                                     ![t].auth_request = auth_request,
                                     ![t].pc = IF time_diff > ExpiryMinutes
                                               THEN "delete_one"
                                               ELSE "update_one"]
    /\ UNCHANGED <<executor, TOOL_REGISTRY, ALLOWED_TOOL_TYPES, user_data, dispatch, called>>
    /\ UNCHANGED <<sessions_collection, telegram_auth, smart_conversations, utcnow>>

\* find_one({auth_code}) answers, or the find_one of the updated record
\* does: neither result is used.  The first is followed by return None,
\* the second by return user_id.
verify_auth_code_returns(t) ==
    /\ tasks[t].pc \in {"find_one_any", "find_one_updated"}
    /\ tasks' = [tasks EXCEPT
                    ![t].pc = "returned",
                    ![t].result = IF tasks[t].pc = "find_one_updated"
                                  THEN tasks[t].auth_request.user_id
                                  ELSE None]
    /\ UNCHANGED <<executor, TOOL_REGISTRY, ALLOWED_TOOL_TYPES, user_data, dispatch, called>>
    /\ UNCHANGED <<sessions_collection, telegram_auth, smart_conversations, utcnow>>

\* delete_one({auth_code}) answers: a document of the code, if there is
\* one, is gone; return None.
verify_auth_code_delete_one(t) ==
    /\ tasks[t].pc = "delete_one"
    /\ LET query(d) == d.auth_code = tasks[t].auth_code
           found == Matching(telegram_auth, query)
       IN  IF found = {}
           THEN telegram_auth' = telegram_auth
           ELSE \E i \in found :
                    telegram_auth' = SubSeq(telegram_auth, 1, i - 1)
                                         \o SubSeq(telegram_auth, i + 1, Len(telegram_auth))
    /\ tasks' = [tasks EXCEPT ![t].pc = "returned", ![t].result = None]
    /\ UNCHANGED <<executor, TOOL_REGISTRY, ALLOWED_TOOL_TYPES, user_data, dispatch, called>>
    /\ UNCHANGED <<sessions_collection, smart_conversations, utcnow>>

\* update_one({auth_code}, {$set: {chat_id, is_verified: True}}) answers:
\* a document of the code, if there is one, has the chat_id of this call.
verify_auth_code_update_one(t) ==
    /\ tasks[t].pc = "update_one"
    /\ LET query(d) == d.auth_code = tasks[t].auth_code
           found == Matching(telegram_auth, query)
       IN  IF found = {}
           THEN telegram_auth' = telegram_auth
           ELSE \E i \in found :
                    telegram_auth' = [telegram_auth EXCEPT
                                         ![i].chat_id = tasks[t].chat_id,
                                         ![i].is_verified = TRUE]
    /\ tasks' = [tasks EXCEPT ![t].pc = "find_one_updated"]
    /\ UNCHANGED <<executor, TOOL_REGISTRY, ALLOWED_TOOL_TYPES, user_data, dispatch, called>>
    /\ UNCHANGED <<sessions_collection, smart_conversations, utcnow>>

InitTelegramAuth ==
    /\ EngineAtRest
    /\ sessions_collection = <<>>
    /\ telegram_auth = <<AuthRequest>>
    /\ smart_conversations = <<>>
    /\ tasks = [t \in AuthTasks |-> IdleAuthTask]
    /\ utcnow = 0

NextTelegramAuth ==
    \/ Tick
    \/ \E t \in AuthTasks, auth_code \in AuthCodes, chat_id \in ChatIds :
           verify_auth_code(t, auth_code, chat_id)
    \/ \E t \in AuthTasks : verify_auth_code_find_one(t)
    \/ \E t \in AuthTasks : verify_auth_code_returns(t)
    \/ \E t \in AuthTasks : verify_auth_code_delete_one(t)
    \/ \E t \in AuthTasks : verify_auth_code_update_one(t)

SpecTelegramAuth == InitTelegramAuth /\ [][NextTelegramAuth]_vars

(***************************************************************************)
(* C38.  An authentication code is used once: of the verify_auth_code      *)
(* calls made with one code at most one returns a user id, and the chat_id *)
(* stored with the code is the chat_id of the call that returned the user  *)
(* id, so no other call changed it.                                        *)
(***************************************************************************)
ReturnedUser(t) ==
    /\ tasks[t].fn = "verify_auth_code"
    /\ tasks[t].pc = "returned"
    /\ tasks[t].result # None

Linked(auth_code, chat_id) ==
    \E i \in 1 .. Len(telegram_auth) :
        /\ telegram_auth[i].auth_code = auth_code
        /\ telegram_auth[i].is_verified
        /\ telegram_auth[i].chat_id = chat_id

C38_CodeIsSingleUse ==
    /\ \A t, u \in AuthTasks :
           /\ ReturnedUser(t) /\ ReturnedUser(u)
           /\ tasks[t].auth_code = tasks[u].auth_code
           => t = u
    /\ \A t \in AuthTasks :
           ReturnedUser(t) => Linked(tasks[t].auth_code, tasks[t].chat_id)

(***************************************************************************)
(* The smart master agent (app/smart_master_agent.py) behind the endpoint  *)
(* POST /master-agent/conversation (app/main.py).  A user message is the   *)
(* sequence of its characters; a letter outside ASCII is written as its    *)
(* code point, and the fixed texts of the replies are single tokens with   *)
(* their letters transliterated.                                           *)
(***************************************************************************)
\* The number of conversations and of messages of one conversation.
MaxConversations == 1
MaxMessages == 5

NEW_CONVERSATION ==
    <<"n", "e", "w", "_", "c", "o", "n", "v", "e", "r", "s", "a", "t", "i", "o", "n">>

UserMessages ==
    { <<"N", "o", "t", " ", "t", "u", "t">>,
      <<"t", "o", "d", "o">>,
      <<"K", "i", "t", "a", "p">>,
      <<"E", "v", "e", "t">>,
      <<"e", "v", "e", "t">> }

\* The answers accepted as a confirmation (line 162).
Confirmations ==
    { <<"e", "v", "e", "t">>,
      <<"t", "a", "m", "a", "m">>,
      <<"o", "n", "a", "y", "l", "U+0131", "y", "o", "r", "u", "m">>,
      <<"o", "l", "u", "U+015F", "t", "u", "r">>,
      <<"k", "a", "b", "u", "l">> }

\* What get_llm_response answers: whether the text starts with YETERLI and
\* the configuration json.loads reads from its ```json block, None when
\* there is no block that parses.
LlmResponses ==
    [yeterli : BOOLEAN, config : {None, <<"llm_agent">>}]

Message(role, content) == [role |-> role, content |-> content]

SmartMasterAgentState(conversation_id) ==
    [conversation_id |-> conversation_id,
     messages |-> <<>>,
     user_requirements |-> <<>>,
     agent_config |-> None,
     completed |-> FALSE,
     current_phase |-> "gathering_requirements"]

\* str(uuid.uuid4()) of a new state: an id no conversation has.
conversation_uuid4 == <<"uuid", Cardinality(DOMAIN smart_conversations) + 1>>

\* The agentId of the hard-coded configuration (lines 89-100).
agent_id_for(user_message) ==
    LET lower == Lower(user_message)
    IN  IF Contains(lower, <<"n", "o", "t">>) \/ Contains(lower, <<"n", "o", "t", "e">>)
        THEN <<"not_alma_agent">>
        ELSE IF Contains(lower, <<"t", "o", "d", "o">>)
                    \/ Contains(lower, <<"g", "U+00F6", "r", "e", "v">>)
        THEN <<"todo_manager_agent">>
        ELSE IF Contains(lower, <<"k", "i", "t", "a", "p">>)
                    \/ Contains(lower, <<"b", "o", "o", "k">>)
        THEN <<"kitap_takip_agent">>
        ELSE <<"custom_agent_1">>

\* The reply of line 120.
Proposal(agent_id) ==
    <<"** agent'i hazirlandi! Agent'i olusturmak icin 'Evet' yazin.", agent_id>>

\* analyze_and_generate_agent(state): a configuration read from the
\* answer is kept and the phase becomes confirming.
analyze_and_generate_agent(state, llm) ==
    IF llm.config # None
    THEN [state EXCEPT !.agent_config = llm.config,
                       !.current_phase = "confirming",
                       !.messages = Append(@, Message("assistant", <<"generated", "Evet?">>))]
    ELSE [state EXCEPT !.messages = Append(@, Message("assistant", <<"generated">>))]

\* process_smart_conversation(conversation_id, user_message): the state it
\* returns, which is the object kept in smart_conversations.
process_smart_conversation(conversation_id, user_message, llm) ==
    LET is_new == \/ conversation_id = <<>>
                  \/ conversation_id = NEW_CONVERSATION
                  \/ conversation_id \notin DOMAIN smart_conversations
        created == IF is_new
                   THEN SmartMasterAgentState(conversation_uuid4)
                   ELSE smart_conversations[conversation_id]
        state == [created EXCEPT !.messages = Append(@, Message("user", user_message))]
    IN  IF state.current_phase = "gathering_requirements"
        THEN IF Len(state.messages) = 1
             THEN [state EXCEPT
                      !.user_requirements = user_message,
                      !.current_phase = "confirming",
                      !.agent_config = agent_id_for(user_message),
                      !.messages = Append(@, Message("assistant",
                                                     Proposal(agent_id_for(user_message))))]
             ELSE LET more == [state EXCEPT
                                  !.user_requirements = @ \o <<"Ek bilgi: ">> \o user_message]
                  IN  IF llm.yeterli
                      THEN analyze_and_generate_agent(
                               [more EXCEPT !.current_phase = "analyzing"], llm)
                      ELSE [more EXCEPT !.messages = Append(@, Message("assistant", <<"question">>))]
        ELSE IF state.current_phase = "analyzing"
        THEN IF Lower(user_message) \in Confirmations
             THEN [state EXCEPT
                      !.completed = TRUE,
                      !.current_phase = "completed",
                      !.messages = Append(@, Message("assistant", <<"Mukemmel!">>))]
             ELSE [state EXCEPT
                      !.agent_config = IF llm.config # None THEN llm.config ELSE @,
                      !.messages = Append(@, Message("assistant", <<"modified">>))]
        ELSE state

\* POST /master-agent/conversation with {message, conversation_id}: the
\* conversation is processed and, when it is completed, the agent is
\* created and saved (saved says whether save_agent succeeded).
master_agent_conversation(conversation_id, user_message) ==
    /\ \/ conversation_id \in DOMAIN smart_conversations
       \/ Cardinality(DOMAIN smart_conversations) < MaxConversations
    /\ conversation_id \in DOMAIN smart_conversations =>
           Len(smart_conversations[conversation_id].messages) < MaxMessages
    /\ \E llm \in LlmResponses, saved \in BOOLEAN :
           LET state == process_smart_conversation(conversation_id, user_message, llm)
               answered ==
                   IF state.completed
                   THEN [state EXCEPT !.messages =
                            Append(@, Message("assistant",
                                              IF saved THEN <<"Harika!">> ELSE <<"Uzgunum">>))]
                   ELSE state
           IN  smart_conversations' =
                   SetItem(smart_conversations, state.conversation_id, answered)
    /\ UNCHANGED <<executor, TOOL_REGISTRY, ALLOWED_TOOL_TYPES, user_data, dispatch, called>>
    /\ UNCHANGED <<sessions_collection, telegram_auth, tasks, utcnow>>

InitConversation ==
    /\ EngineAtRest
    /\ sessions_collection = <<>>
    /\ telegram_auth = <<>>
    /\ smart_conversations = <<>>
    /\ tasks = <<>>
    /\ utcnow = 0

NextConversation ==
    \E user_message \in UserMessages,
       conversation_id \in DOMAIN smart_conversations \cup {<<>>, NEW_CONVERSATION} :
        master_agent_conversation(conversation_id, user_message)

SpecConversation == InitConversation /\ [][NextConversation]_vars

(***************************************************************************)
(* C39.  A conversation whose first user message was answered with the     *)
(* proposed agent and the request to type 'Evet', and whose next user      *)
(* message is 'evet', is completed.                                        *)
(***************************************************************************)
Proposed(state) ==
    /\ Len(state.messages) >= 2
    /\ state.messages[1].role = "user"
    /\ state.messages[2] = Message("assistant", Proposal(state.agent_config))

C39_EvetCompletes ==
    \A id \in DOMAIN smart_conversations :
        LET state == smart_conversations[id]
        IN  /\ Proposed(state)
            /\ Len(state.messages) >= 3
            /\ state.messages[3] = Message("user", <<"e", "v", "e", "t">>)
            => state.completed

====
